---- MODULE Spec2Model ----
(***************************************************************************)
(* score-trend: the import engine (src/importEngine.ts), the sheet parser  *)
(* (ExcelParse.ts) and the part of App.tsx that drives them.               *)
(*                                                                         *)
(* Text.  A JavaScript string is a sequence of characters; a character is  *)
(* a one-token TLA+ string.  ASCII characters stand for themselves, a CJK  *)
(* character is written as its pinyin (with a digit where two characters   *)
(* share a syllable):                                                      *)
(*   xing ming      U+59D3 U+540D  "name"          ming zi   U+540D U+5B57 *)
(*   ban ji         U+73ED U+7EA7  "class"         hao       U+53F7        *)
(*   zong fen       U+603B U+5206  "total score"   pai       U+6392        *)
(*   shuo ming2     U+8BF4 U+660E  "instructions"  lie       U+5217        *)
(*   wei zhi ban ji U+672A U+77E5 U+73ED U+7EA7    "unknown class"         *)
(*   quan xiao      U+5168 U+6821  "whole school"                          *)
(*   flp frp        U+FF08 U+FF09  full-width parentheses                  *)
(* A cell of a sheet is a string; the empty cell is <<>>.  A numeric cell  *)
(* v is carried as String(v): every use of a cell in the code goes through *)
(* String(v) or toNumber(v), and the two agree on the decimal notation of  *)
(* the numbers the sheets hold.                                            *)
(***************************************************************************)
EXTENDS Integers, Sequences, FiniteSets, TLC

\* ------------------------------------------------------------------ text

Upper == <<"A","B","C","D","E","F","G","H","I","J","K","L","M",
           "N","O","P","Q","R","S","T","U","V","W","X","Y","Z">>
Lower == <<"a","b","c","d","e","f","g","h","i","j","k","l","m",
           "n","o","p","q","r","s","t","u","v","w","x","y","z">>
DigitChars == <<"0","1","2","3","4","5","6","7","8","9">>

Range(s) == {s[i] : i \in DOMAIN s}

UpperSet == Range(Upper)
LowerSet == Range(Lower)
DigitSet == Range(DigitChars)
\* \s of a JavaScript regular expression, and what trim() removes
WhiteSpace == {" ", "\t"}
\* the characters of [一-龥] that the sheets of the model use
CJK == {"xing","ming","zi","ban","ji","hao","hang","zheng","bie","bian",
        "xue","sheng","kao","zhun","zheng2","zong","fen","de","yuan","shi",
        "fu","pai","ci","nian","xiao","yu","wen","shu","ying","wu","li",
        "hua","li2","shi2","di","zhi2","ji2","he","ji3","kou","nei",
        "wei","zhi","quan","shuo","ming2","lie","ming3",
        "zhang","san","li3","si","wang","wu2","zhao","liu","qian","qi",
        "qi2","zhong","cheng"}

IndexOf(seq, x) == CHOOSE i \in DOMAIN seq : seq[i] = x

\* String.prototype.toLowerCase, per character
LowerChar(ch) == IF ch \in UpperSet THEN Lower[IndexOf(Upper, ch)] ELSE ch
ToLower(s) == [i \in DOMAIN s |-> LowerChar(s[i])]

IsSpace(ch) == ch \in WhiteSpace
NotSpace(ch) == ch \notin WhiteSpace

\* String.prototype.trim
RECURSIVE TrimLeft(_)
TrimLeft(s) ==
    IF s # <<>> /\ IsSpace(Head(s)) THEN TrimLeft(Tail(s)) ELSE s

RECURSIVE TrimRight(_)
TrimRight(s) ==
    IF s # <<>> /\ IsSpace(s[Len(s)]) THEN TrimRight(SubSeq(s, 1, Len(s) - 1)) ELSE s

Trim(s) == TrimRight(TrimLeft(s))

\* s.replace(/\s+/g, "")
StripSpaces(s) == SelectSeq(s, NotSpace)

\* String.prototype.includes
Includes(s, sub) ==
    \E i \in 0..(Len(s) - Len(sub)) : SubSeq(s, i + 1, i + Len(sub)) = sub

IncludesAny(s, subs) == \E k \in subs : Includes(s, k)

\* s.replace(/X/g, Y) for single characters X and Y
ReplaceChar(s, x, y) == [i \in DOMAIN s |-> IF s[i] = x THEN y ELSE s[i]]

\* the number of [a-zA-Z] characters that end at position n of s
RECURSIVE LetterRun(_, _)
LetterRun(s, n) ==
    IF n >= 1 /\ s[n] \in (UpperSet \cup LowerSet) THEN 1 + LetterRun(s, n - 1) ELSE 0

\* s.replace(/<open>[a-zA-Z]+lie<close>$/, ""): the column-letter suffix that
\* makeUniqueColumns appends to a label
StripColSuffix(s, open, close) ==
    LET n == Len(s) IN
    IF n >= 4 /\ s[n] = close /\ s[n - 1] = "lie"
    THEN LET k == LetterRun(s, n - 2) IN
         IF k >= 1 /\ n - 2 - k >= 1 /\ s[n - 2 - k] = open
         THEN SubSeq(s, 1, n - 3 - k)
         ELSE s
    ELSE s

\* String(n) of a non-negative integer
RECURSIVE NatToStr(_)
NatToStr(n) ==
    IF n < 10 THEN <<DigitChars[n + 1]>>
    ELSE NatToStr(n \div 10) \o <<DigitChars[(n % 10) + 1]>>

normalizeHeader(s) ==
    ToLower(
      ReplaceChar(
        ReplaceChar(
          StripSpaces(
            StripColSuffix(StripColSuffix(Trim(s), "flp", "frp"), "(", ")")),
          "flp", "("),
        "frp", ")"))

\* ------------------------------------------------------------------ numbers

\* The result of toNumber: NoNumber is null; a number is its sign, its integer
\* part and whether a non-zero fraction follows (all that the comparisons of
\* the code with integer thresholds read).
NoNumber == [ok |-> FALSE, neg |-> FALSE, int |-> 0, frac |-> FALSE]

IsNumChar(ch) == ch \in DigitSet \cup {".", "-"}
IsDigit(ch) == ch \in DigitSet

RECURSIVE DigitsVal(_)
DigitsVal(s) ==
    IF s = <<>> THEN 0
    ELSE 10 * DigitsVal(SubSeq(s, 1, Len(s) - 1)) + (IndexOf(DigitChars, s[Len(s)]) - 1)

\* Number(cleaned) for a string of digits, "." and "-": the grammar
\* -?(D+(.D*)? | .D+); anything else is NaN
ParseNumber(cleaned) ==
    LET neg == cleaned # <<>> /\ Head(cleaned) = "-"
        body == IF neg THEN Tail(cleaned) ELSE cleaned
        dots == {i \in DOMAIN body : body[i] = "."}
        dot == IF dots = {} THEN Len(body) + 1 ELSE CHOOSE i \in dots : TRUE
        ip == SubSeq(body, 1, dot - 1)
        fp == SubSeq(body, dot + 1, Len(body))
    IN  IF \/ \E i \in DOMAIN body : body[i] = "-"
           \/ Cardinality(dots) > 1
           \/ (ip = <<>> /\ fp = <<>>)
        THEN NoNumber
        ELSE [ok |-> TRUE, neg |-> neg, int |-> DigitsVal(ip),
              frac |-> \E i \in DOMAIN fp : fp[i] # "0"]

toNumber(v) ==
    LET s == Trim(v)
        cleaned == SelectSeq(s, IsNumChar)
    IN  IF s = <<>> \/ cleaned = <<>> THEN NoNumber ELSE ParseNumber(cleaned)

\* n >= 0 && n <= k, for an integer k >= 0
NumInRange(n, k) ==
    /\ n.ok
    /\ (~n.neg \/ (n.int = 0 /\ ~n.frac))
    /\ (n.neg \/ n.int < k \/ (n.int = k /\ ~n.frac))

\* n >= k, for an integer k > 0
NumAtLeast(n, k) == n.ok /\ ~n.neg /\ n.int >= k

AllCJK(s) == \A i \in DOMAIN s : s[i] \in CJK

\* /^[CJK]{2,5}$/ on the trimmed text
isLikelyChineseName(v) ==
    LET s == Trim(v) IN Len(s) >= 2 /\ Len(s) <= 5 /\ AllCJK(s)

\* /^-?\d+(\.\d+)?$/
looksLikeNumber(s) ==
    LET body == IF s # <<>> /\ Head(s) = "-" THEN Tail(s) ELSE s
        dots == {i \in DOMAIN body : body[i] = "."}
        dot == IF dots = {} THEN Len(body) + 1 ELSE CHOOSE i \in dots : TRUE
    IN  /\ Cardinality(dots) <= 1
        /\ dot >= 2
        /\ dot # Len(body)
        /\ \A i \in DOMAIN body : i # dot => body[i] \in DigitSet

\* a rational p/q with q > 0, as the pair <<p, q>>
RatGt(a, b) == a[1] * b[2] > b[1] * a[2]
RatLt(a, b) == a[1] * b[2] < b[1] * a[2]

\* ------------------------------------------------------------------ sheet parser

\* matrix[r][c] with 0-based r and c; a missing row or cell reads as empty
MRow(matrix, r) == IF r + 1 <= Len(matrix) THEN matrix[r + 1] ELSE <<>>
Cell(row, c) == IF c + 1 <= Len(row) THEN row[c + 1] ELSE <<>>

isEmptyCell(v) == Trim(v) = <<>>

\* the first merge range that holds (r0, c0), or 0
FirstMergeAt(merges, r0, c0) ==
    LET hits == {k \in DOMAIN merges :
                    /\ r0 >= merges[k].sr /\ r0 <= merges[k].er
                    /\ c0 >= merges[k].sc /\ c0 <= merges[k].ec}
    IN  IF hits = {} THEN 0 ELSE CHOOSE k \in hits : \A j \in hits : k <= j

\* ws is the sheet as stored: its cells and its merge ranges
getCellValueMerged(ws, r0, c0) ==
    LET v == Cell(MRow(ws.cells, r0), c0)
        k == FirstMergeAt(ws.merges, r0, c0)
    IN  IF ~isEmptyCell(v) THEN v
        ELSE IF k = 0 THEN <<>>
        ELSE Cell(MRow(ws.cells, ws.merges[k].sr), ws.merges[k].sc)

MaxOf(a, b) == IF a >= b THEN a ELSE b
MinOf(a, b) == IF a <= b THEN a ELSE b

\* FillRow that gives tl to every cell of the range: C26 must reject it
FillRow_overwrite(row, sc, ec, tl) ==
    [j \in 1..MaxOf(Len(row), ec + 1) |->
        LET old == IF j <= Len(row) THEN row[j] ELSE <<>> IN
        IF j - 1 >= sc /\ j - 1 <= ec THEN tl ELSE old]

\* one row of a merge range: the empty cells of columns sc..ec take tl
FillRow(row, sc, ec, tl) ==
    [j \in 1..MaxOf(Len(row), ec + 1) |->
        LET old == IF j <= Len(row) THEN row[j] ELSE <<>> IN
        IF j - 1 >= sc /\ j - 1 <= ec /\ isEmptyCell(old) THEN tl ELSE old]

ApplyOneMerge(ws, matrix, m, maxRows) ==
    LET tl == getCellValueMerged(ws, m.sr, m.sc)
        rEnd == MinOf(m.er, maxRows - 1)
    IN  IF m.sr >= maxRows \/ isEmptyCell(tl) THEN matrix
        ELSE [i \in DOMAIN matrix |->
                IF i - 1 >= m.sr /\ i - 1 <= rEnd
                THEN FillRow(matrix[i], m.sc, m.ec, tl)
                ELSE matrix[i]]

RECURSIVE ApplyMerges(_, _, _, _, _)
ApplyMerges(ws, matrix, merges, k, maxRows) ==
    IF k > Len(merges) THEN matrix
    ELSE ApplyMerges(ws, ApplyOneMerge(ws, matrix, merges[k], maxRows),
                     merges, k + 1, maxRows)

applyMergesToMatrix(ws, matrix, maxRows) ==
    IF ws.merges = <<>> THEN matrix
    ELSE ApplyMerges(ws,
                     [i \in 1..MaxOf(Len(matrix), maxRows) |-> MRow(matrix, i - 1)],
                     ws.merges, 1, maxRows)

\* the header keywords of detectHeaderStartRow and buildHeaders (one regular
\* expression, an alternation of these words)
HEADER_KEYWORDS ==
    { <<"xing","ming">>, <<"ming","zi">>, <<"xue","hao">>, <<"kao","hao">>,
      <<"xue","ji2">>, <<"ban","ji">>, <<"zong","fen">>, <<"he","ji3">>,
      <<"zong","ji3">>, <<"fen","shu">>, <<"pai","ming">>, <<"ming","ci">>,
      <<"kou","fen">>, <<"yuan","shi","fen">>, <<"fu","fen">>, <<"yu","wen">>,
      <<"shu","xue">>, <<"ying","yu">>, <<"wu","li">>, <<"hua","xue">>,
      <<"sheng","wu">>, <<"zheng","zhi2">>, <<"li2","shi2">>, <<"di","li">> }

hasKeyword(row) == \E i \in DOMAIN row : IncludesAny(row[i], HEADER_KEYWORDS)

nonEmptyCells(row) == SelectSeq([i \in DOMAIN row |-> Trim(row[i])], LAMBDA s : s # <<>>)

nonEmptyCount(row) == Len(nonEmptyCells(row))

looksLikeTitle(row) ==
    LET ne == nonEmptyCells(row) IN Len(ne) = 1 /\ Len(ne[1]) >= 6

\* the loop of detectHeaderStartRow from row r on, best = <<bestRow, bestScore>>
RECURSIVE HeaderScan(_, _, _, _)
HeaderScan(matrix, r, limit, best) ==
    IF r >= limit THEN best[1]
    ELSE LET row == MRow(matrix, r)
             ne == nonEmptyCount(row)
             kw == hasKeyword(row)
             score == ne + (IF kw THEN 12 ELSE 0)
         IN  IF looksLikeTitle(row) \/ (ne < 3 /\ ~kw) \/ ~(score > best[2])
             THEN HeaderScan(matrix, r + 1, limit, best)
             ELSE HeaderScan(matrix, r + 1, limit, <<r, score>>)

\* the loop with "score >= bestScore": of the rows that weigh the most the last
\* one is taken
RECURSIVE HeaderScan_last(_, _, _, _)
HeaderScan_last(matrix, r, limit, best) ==
    IF r >= limit THEN best[1]
    ELSE LET row == MRow(matrix, r)
             ne == nonEmptyCount(row)
             kw == hasKeyword(row)
             score == ne + (IF kw THEN 12 ELSE 0)
         IN  IF looksLikeTitle(row) \/ (ne < 3 /\ ~kw) \/ ~(score >= best[2])
             THEN HeaderScan_last(matrix, r + 1, limit, best)
             ELSE HeaderScan_last(matrix, r + 1, limit, <<r, score>>)

\* detectHeaderStartRow with that loop: C21 must reject it
detectHeaderStartRow_last(matrix) ==
    HeaderScan_last(matrix, 0, MinOf(18, Len(matrix)), <<0, -1>>)

detectHeaderStartRow(matrix) ==
    HeaderScan(matrix, 0, MinOf(18, Len(matrix)), <<0, -1>>)

\* fillForward from position i on, last being the last non-empty text seen
RECURSIVE FillFrom(_, _, _)
FillFrom(arr, i, last) ==
    IF i > Len(arr) THEN <<>>
    ELSE LET v == Trim(arr[i]) IN
         IF v # <<>> THEN <<arr[i]>> \o FillFrom(arr, i + 1, v)
         ELSE <<last>> \o FillFrom(arr, i + 1, last)

fillForward(arr) == FillFrom(arr, 1, <<>>)

CountIn(seq, P(_)) == Cardinality({i \in DOMAIN seq : P(seq[i])})

STRONG_HEADERS ==
    { <<"xing","ming">>, <<"yuan","shi","fen">>, <<"fu","fen">>,
      <<"xiao","nei","pai","ming">>, <<"ban","ji","pai","ming">>,
      <<"nian","ji","pai","ming">>, <<"zong","fen">>, <<"he","ji3">>,
      <<"ming","ci">>, <<"pai","ming">> }

\* the text "unnamed" (wei ming3 ming) given to a column without a header
UNNAMED == <<"wei","ming3","ming">>

useTwoRows(r0, r1, W) ==
    LET c1 == nonEmptyCells(r1)
        kwHits == CountIn(c1, LAMBDA s : IncludesAny(s, HEADER_KEYWORDS))
        nameHits == CountIn(c1, LAMBDA s : Len(s) >= 2 /\ Len(s) <= 5 /\ AllCJK(s))
        numHits == CountIn(c1, looksLikeNumber)
        row1LooksLikeData ==
            kwHits = 0 /\ Len(c1) > 0
            /\ (4 * nameHits >= Len(c1) \/ 5 * numHits >= 3 * Len(c1))
        row1HasStrongHeader == \E i \in DOMAIN c1 : IncludesAny(c1[i], STRONG_HEADERS)
        row1LooksLikeHeader == kwHits >= 1 \/ row1HasStrongHeader
        nonEmptyCount0 == nonEmptyCount(r0)
        nonEmptyCount1 == Len(c1)
        row0Sparse == nonEmptyCount0 <= MaxOf(2, W \div 4)
        row1Rich == nonEmptyCount1 >= MaxOf(4, (35 * W) \div 100)
        row0HasGroupKeyword == hasKeyword(nonEmptyCells(r0))
        groupHeaderPattern == (row0Sparse /\ row1Rich) \/ (row0HasGroupKeyword /\ row1Rich)
    IN  ~row1LooksLikeData /\ (row1LooksLikeHeader \/ groupHeaderPattern)

\* the label of one column from its two header cells (both trimmed)
headerText(a, b, two) ==
    LET h == IF two
             THEN IF a # <<>> /\ b # <<>> /\ a # b THEN a \o <<"_">> \o b
                  ELSE IF a # <<>> THEN a ELSE b
             ELSE a
    IN  IF h = <<>> THEN UNNAMED ELSE h

headersFrom(r0, r1, two) ==
    [headers |-> [c \in DOMAIN r0 |-> headerText(Trim(r0[c]), Trim(r1[c]), two)],
     headerRowsUsed |-> IF two THEN 2 ELSE 1]

\* [...Array(W)].map((_, i) => row[i] ?? "")
padRow(row, W) == [i \in 1..W |-> Cell(row, i - 1)]

\* buildHeaders from r0 (row 0, filled forward) and r1 (row 1, as it is)
headersOfRows(r0, r1) == headersFrom(r0, r1, useTwoRows(r0, r1, Len(r0)))

headersOfWidth(row0, row1, W) == headersOfRows(fillForward(padRow(row0, W)), padRow(row1, W))

buildHeaders(view) ==
    headersOfWidth(MRow(view, 0), MRow(view, 1),
                   MaxOf(Len(MRow(view, 0)), Len(MRow(view, 1))))

isSeparatorCol(matrix, col, topRows) ==
    \A r \in 0..(MinOf(topRows, Len(matrix)) - 1) : isEmptyCell(Cell(MRow(matrix, r), col))

\* the while loop of splitBlocks at column c with the current range start
RECURSIVE SplitFrom(_, _, _, _)
SplitFrom(cuts, W, c, start) ==
    IF c >= W THEN (IF start < W THEN <<[start |-> start, end |-> W - 1]>> ELSE <<>>)
    ELSE IF c \in cuts
    THEN LET after == {d \in c..W : d = W \/ d \notin cuts}
             next == CHOOSE d \in after : \A e \in after : d <= e
         IN  (IF c - 1 >= start THEN <<[start |-> start, end |-> c - 1]>> ELSE <<>>)
             \o SplitFrom(cuts, W, next, next)
    ELSE SplitFrom(cuts, W, c + 1, start)

\* splitBlocks that looks at the first three rows for a separator: C20 must
\* reject it
splitBlocks_threeRows(view, headers) ==
    LET W == Len(headers)
        cuts == {c \in 0..(W - 1) : isSeparatorCol(view, c, 3)}
    IN  SelectSeq(SplitFrom(cuts, W, 0, 0), LAMBDA r : r.end - r.start + 1 >= 3)

splitBlocks(view, headers) ==
    LET W == Len(headers)
        cuts == {c \in 0..(W - 1) : isSeparatorCol(view, c, 2)}
    IN  SelectSeq(SplitFrom(cuts, W, 0, 0), LAMBDA r : r.end - r.start + 1 >= 3)

\* the norm of ExcelParse.ts (normalizeHeader without the suffix removal)
norm(s) == ToLower(ReplaceChar(ReplaceChar(StripSpaces(Trim(s)), "flp", "("), "frp", ")"))

RECURSIVE colLetterFrom(_)
colLetterFrom(x) ==
    IF x <= 0 THEN <<>>
    ELSE colLetterFrom((x - 1) \div 26) \o <<Upper[((x - 1) % 26) + 1]>>

colLetter(n) == colLetterFrom(n + 1)

\* makeUniqueColumns that numbers a key by the count of its header text in
\* place of the column index: C25 must reject it
makeUniqueColumns_counted(headers, start, end) ==
    [i \in 1..(end - start + 1) |->
        LET c == start + i - 1
            base == headers[c + 1]
            keyBase == IF norm(base) = <<>> THEN <<"c","o","l">> ELSE norm(base)
            n == Cardinality({d \in start..c :
                    norm(headers[d + 1]) = norm(base)})
        IN  [key |-> keyBase \o <<"_","_">> \o NatToStr(n),
             label |-> base \o <<"flp">> \o colLetter(c) \o <<"lie","frp">>,
             colIndex |-> c]]

makeUniqueColumns(headers, start, end) ==
    [i \in 1..(end - start + 1) |->
        LET c == start + i - 1
            base == headers[c + 1]
            keyBase == IF norm(base) = <<>> THEN <<"c","o","l">> ELSE norm(base)
        IN  [key |-> keyBase \o <<"_","_">> \o NatToStr(c),
             label |-> base \o <<"flp">> \o colLetter(c) \o <<"lie","frp">>,
             colIndex |-> c]]

\* the data rows of one block: a row is kept when a cell of the block is not empty
blockRows(view, columns, dataStartRow) ==
    LET keys == {columns[j].key : j \in DOMAIN columns}
        col(k) == CHOOSE j \in DOMAIN columns : columns[j].key = k
        obj(i) == [k \in keys |-> Cell(view[i], columns[col(k)].colIndex)]
        kept == SelectSeq([i \in 1..Len(view) |-> i],
                          LAMBDA i : i > dataStartRow
                                     /\ \E k \in keys : ~isEmptyCell(obj(i)[k]))
    IN  [n \in DOMAIN kept |-> obj(kept[n])]

\* the block of one column range (idx is 1-based)
blockWith(view, columns, bh, headerStartRow, range, idx) ==
    [blockId |-> <<"b","l","o","c","k","-">> \o NatToStr(idx),
     columns |-> columns,
     rows |-> blockRows(view, columns, bh.headerRowsUsed),
     meta |-> [startCol |-> range.start,
               endCol |-> range.end,
               headerStartRow |-> headerStartRow,
               headerRowsUsed |-> bh.headerRowsUsed]]

blocksIn(view, bh, headerStartRow, ranges) ==
    [idx \in DOMAIN ranges |->
        blockWith(view, makeUniqueColumns(bh.headers, ranges[idx].start, ranges[idx].end),
                  bh, headerStartRow, ranges[idx], idx)]

blocksOf(view, bh, headerStartRow) ==
    blocksIn(view, bh, headerStartRow, splitBlocks(view, bh.headers))

\* parseSheetToBlocks from "const view = matrix.slice(headerStartRow)" on
parseView(view, headerStartRow) == blocksOf(view, buildHeaders(view), headerStartRow)

parseMatrix(matrix, headerStartRow) ==
    parseView(SubSeq(matrix, headerStartRow + 1, Len(matrix)), headerStartRow)

parseMerged(matrix) == parseMatrix(matrix, detectHeaderStartRow(matrix))

\* wb.Sheets[sheetName] is ws; sheet_to_json gives its cells as the matrix
parseSheetToBlocks(ws) ==
    IF ws.cells = <<>> THEN <<>>
    ELSE parseMerged(applyMergesToMatrix(ws, ws.cells, 30))

\* ------------------------------------------------------------------ column guessing

\* r[k] ?? "": a key the row does not have (the empty key too) reads as empty
Get(r, k) == IF k \in DOMAIN r THEN r[k] ELSE <<>>

\* rows.slice(0, n)
Slice(rows, n) == SubSeq(rows, 1, MinOf(n, Len(rows)))

NAME_WORDS == { <<"xing","ming">>, <<"ming","zi">> }

isNameHeader(label) == IncludesAny(normalizeHeader(label), NAME_WORDS)

\* the keys of the columns that satisfy P, in column order
KeysWhere(cols, P(_)) ==
    LET hit == SelectSeq(cols, P) IN [i \in DOMAIN hit |-> hit[i].key]

findAllNameCols(cols) == KeysWhere(cols, LAMBDA c : isNameHeader(c.label))

\* the key of the first column that satisfies P, or ""
FirstKey(cols, P(_)) ==
    LET hit == KeysWhere(cols, P) IN IF hit = <<>> THEN <<>> ELSE hit[1]

ID_WORDS ==
    { <<"xue","sheng","i","d">>, <<"xue","hao">>,
      <<"s","t","u","d","e","n","t","i","d">>,
      <<"s","t","u","d","e","n","t","_","i","d">>, <<"i","d">> }

guessIdCol(cols) ==
    FirstKey(cols, LAMBDA c : IncludesAny(normalizeHeader(c.label), ID_WORDS))

CLASS_EXACT ==
    { <<"ban","ji">>, <<"ban","ji","hao">>, <<"hang","zheng","ban">>, <<"ban","hao">>,
      <<"ban","bie">>, <<"ban","ji","bian","hao">> }

CLASS_EXCLUDE ==
    { <<"pai","ming">>, <<"ming","ci">>, <<"r","a","n","k">>, <<"ban","ji","pai">>,
      <<"nian","ji","pai">>, <<"ban","pai">>, <<"nian","pai">>, <<"xiao","pai">>,
      <<"ji","pai">> }

SCOPE_CHARS == { <<"ban">>, <<"nian">>, <<"xiao">>, <<"ji">> }

classIsRankLike(h) ==
    \/ IncludesAny(h, CLASS_EXCLUDE)
    \/ (Includes(h, <<"pai">>) /\ IncludesAny(h, SCOPE_CHARS))

CLASS_LOOSE ==
    { <<"ban","ji","hao">>, <<"hang","zheng","ban">>, <<"ban","hao">>, <<"ban","ji">> }

classExact(h) == ~classIsRankLike(h) /\ h \in CLASS_EXACT

classLoose(h) == ~classIsRankLike(h) /\ IncludesAny(h, CLASS_LOOSE)

\* a || b on keys
OrElse(a, b) == IF a # <<>> THEN a ELSE b

guessClassCol(cols) ==
    OrElse(FirstKey(cols, LAMBDA c : classExact(normalizeHeader(c.label))),
           FirstKey(cols, LAMBDA c : classLoose(normalizeHeader(c.label))))

\* String(r[key] ?? "").trim() of the first n rows
trimmedCells(rows, key, n) ==
    [i \in DOMAIN Slice(rows, n) |-> Trim(Get(rows[i], key))]

\* the score guessNameCol gives a column whose trimmed cells are vals
nameScoreOf(h, vals) ==
    LET seen == CountIn(vals, LAMBDA v : v # <<>>)
        hit == CountIn(vals, LAMBDA v : v # <<>> /\ isLikelyChineseName(v))
    IN  IF seen > 0 THEN <<h * seen + 10 * hit, seen>> ELSE <<h, 1>>

\* the score guessNameCol gives a column, as a rational
nameScore(rows, c) ==
    nameScoreOf(IF isNameHeader(c.label) THEN 6 ELSE 0, trimmedCells(rows, c.key, 450))

\* "if (score > bestScore) best = c.key" with the score s of column k
TakeBetter(col, s, best) == IF RatGt(s, best[2]) THEN <<col.key, s>> ELSE best

\* the loop over the columns k.., best = <<key, score>>
RECURSIVE BestBy(_, _, _, _)
BestBy(cols, score(_), k, best) ==
    IF k > Len(cols) THEN best
    ELSE BestBy(cols, score, k + 1, TakeBetter(cols[k], score(cols[k]), best))

firstNameCol(cols, prefer) ==
    IF prefer # <<>> THEN prefer
    ELSE IF cols # <<>> THEN cols[1].key ELSE <<>>

\* guessNameCol without the fall back to a column that is not headed as a
\* name: C27 must reject it
guessNameCol_headed(rows, cols) == FirstKey(cols, LAMBDA c : isNameHeader(c.label))

guessNameCol(rows, cols) ==
    BestBy(cols, LAMBDA c : nameScore(rows, c), 1,
           <<firstNameCol(cols, FirstKey(cols, LAMBDA c : isNameHeader(c.label))),
             <<-1, 1>>>>)[1]

TOTAL_GOOD ==
    { <<"zong","fen">>, <<"zong","fen","de","fen">>, <<"zong","fen","_","de","fen">>,
      <<"zong","fen","yuan","shi","fen">>, <<"zong","fen","_","yuan","shi","fen">>,
      <<"zong","fen","yuan","shi">>, <<"zong","fen","_","yuan","shi">> }

totalIsRankLike(h) ==
    \/ Includes(h, <<"pai","ming">>)
    \/ Includes(h, <<"ming","ci">>)
    \/ Includes(h, <<"ban","ji","pai">>)
    \/ Includes(h, <<"nian","ji","pai">>)
    \/ (Includes(h, <<"pai">>) /\ IncludesAny(h, SCOPE_CHARS))

totalIsMetaLike(h) ==
    \/ h = <<"ban","ji">>
    \/ Includes(h, <<"ban","ji","hao">>)
    \/ Includes(h, <<"hang","zheng","ban">>)
    \/ Includes(h, <<"ban","hao">>)
    \/ Includes(h, <<"kao","hao">>)
    \/ Includes(h, <<"zhun","kao","zheng2">>)
    \/ h = <<"xing","ming">>
    \/ Includes(h, <<"ming","zi">>)

\* a cell as scoreTotal reads it: whether it is filled, and its number
numCell(v) == [filled |-> Trim(v) # <<>>, n |-> toNumber(v)]

numCells(rows, key, n) == [i \in DOMAIN Slice(rows, n) |-> numCell(Get(rows[i], key))]

totalBase(h) ==
    (IF IncludesAny(h, TOTAL_GOOD) THEN 20 ELSE 0)
    - (IF Includes(h, <<"fu","fen">>) THEN 50 ELSE 0)

\* the data part of scoreTotal over the cells of the column
totalData(base, cells) ==
    LET seen == CountIn(cells, LAMBDA x : x.filled)
        numeric == CountIn(cells, LAMBDA x : x.filled /\ x.n.ok)
        inRange == CountIn(cells, LAMBDA x : x.filled /\ NumInRange(x.n, 1200))
        veryLarge == CountIn(cells, LAMBDA x : x.filled /\ NumAtLeast(x.n, 100000))
    IN  IF seen > 0
        THEN <<base * seen + 5 * numeric + 30 * inRange - 200 * veryLarge, seen>>
        ELSE <<base - 50, 1>>

scoreTotalOf(h, cells) ==
    IF totalIsRankLike(h) \/ totalIsMetaLike(h) THEN <<-9999, 1>>
    ELSE totalData(totalBase(h), cells)

\* scoreTotal of guessTotalCol, as a rational (the sum is exact here)
scoreTotal(rows, c) == scoreTotalOf(normalizeHeader(c.label), numCells(rows, c.key, 450))

\* acceptTotal without the threshold: C13 must reject it
acceptTotal_always(best) == best[1]

\* "if (bestScore < 10) return ''"
acceptTotal(best) == IF RatLt(best[2], <<10, 1>>) THEN <<>> ELSE best[1]

guessTotalCol(rows, cols) ==
    acceptTotal(BestBy(cols, LAMBDA c : scoreTotal(rows, c), 1,
                       <<<<>>, <<-1000000000, 1>>>>))

hasAnyNonEmpty(rows, colKey, limit) ==
    /\ colKey # <<>>
    /\ \E i \in DOMAIN Slice(rows, limit) : Trim(Get(rows[i], colKey)) # <<>>

\* ------------------------------------------------------------------ metric detection

\* the punctuation the norm of detectMetricCols removes: full-width and ASCII
\* parentheses and brackets, _ - em-dash middle-dot . full-stop : full-width
\* colon / and backslash
METRIC_PUNCT ==
    {"flp", "frp", "(", ")", "flb", "frb", "[", "]", "_", "-", "emdash", "middot",
     ".", "fstop", ":", "fcolon", "/", "\\"}

metricNorm(s) ==
    SelectSeq(StripSpaces(ToLower(Trim(s))), LAMBDA ch : ch \notin METRIC_PUNCT)

\* the metrics in the order in which the loop body of detectMetricCols tries them
METRIC_TRY ==
    <<"schoolRank", "classRank", "total", "chinese", "math", "english", "physics",
      "chemistry", "biology", "politics", "history", "geography">>

rankWord(h) ==
    Includes(h, <<"pai","ming">>) \/ Includes(h, <<"ming","ci">>) \/ Includes(h, <<"pai">>)

isSchoolRank(h) ==
    /\ \/ Includes(h, <<"nian","ji">>) \/ Includes(h, <<"xue","xiao">>)
       \/ Includes(h, <<"xiao">>) \/ Includes(h, <<"ji">>)
    /\ rankWord(h)
    /\ ~Includes(h, <<"ban">>)

\* isClassRank without the exclusion of the grade and school words: C23 must
\* reject it
isClassRank_loose(h) == Includes(h, <<"ban">>) /\ rankWord(h)

isClassRank(h) ==
    /\ Includes(h, <<"ban">>)
    /\ rankWord(h)
    /\ ~Includes(h, <<"nian","ji">>)
    /\ ~Includes(h, <<"xue","xiao">>)
    /\ ~Includes(h, <<"xiao">>)

\* whether the header h (already normalised) is evidence for metric m
metricMatches(m, h) ==
    CASE m = "schoolRank" -> isSchoolRank(h)
      [] m = "classRank" -> isClassRank(h)
      [] m = "total" -> \/ Includes(h, <<"zong","fen">>)
                        \/ Includes(h, <<"zong","fen","de","fen">>)
                        \/ Includes(h, <<"zong","fen","yuan","shi">>)
      [] m = "chinese" -> Includes(h, <<"yu","wen">>)
      [] m = "math" -> Includes(h, <<"shu","xue">>)
      [] m = "english" -> Includes(h, <<"ying","yu">>)
      [] m = "physics" -> Includes(h, <<"wu","li">>)
      [] m = "chemistry" -> Includes(h, <<"hua","xue">>)
      [] m = "biology" -> Includes(h, <<"sheng","wu">>)
      [] m = "politics" -> Includes(h, <<"zheng","zhi2">>)
      [] m = "history" -> Includes(h, <<"li2","shi2">>)
      [] m = "geography" -> Includes(h, <<"di","li">>)

\* metricStep that records the label of the column in place of its key: C15
\* must reject it
metricStep_label(metricCols, c) ==
    LET h == metricNorm(c.label)
        free == {i \in DOMAIN METRIC_TRY :
                    METRIC_TRY[i] \notin DOMAIN metricCols /\ metricMatches(METRIC_TRY[i], h)}
    IN  IF free = {} THEN metricCols
        ELSE LET i == CHOOSE i \in free : \A j \in free : i <= j
             IN  [m \in DOMAIN metricCols \cup {METRIC_TRY[i]} |->
                    IF m = METRIC_TRY[i] THEN c.label ELSE metricCols[m]]

\* one pass of the loop body: the first metric, in the order tried, that is
\* not yet assigned and that the header matches takes the column
metricStep(metricCols, c) ==
    LET h == metricNorm(c.label)
        free == {i \in DOMAIN METRIC_TRY :
                    METRIC_TRY[i] \notin DOMAIN metricCols /\ metricMatches(METRIC_TRY[i], h)}
    IN  IF free = {} THEN metricCols
        ELSE LET i == CHOOSE i \in free : \A j \in free : i <= j
             IN  [m \in DOMAIN metricCols \cup {METRIC_TRY[i]} |->
                    IF m = METRIC_TRY[i] THEN c.key ELSE metricCols[m]]

RECURSIVE metricLoop(_, _, _)
metricLoop(cols, k, metricCols) ==
    IF k > Len(cols) THEN metricCols
    ELSE metricLoop(cols, k + 1, metricStep(metricCols, cols[k]))

\* the empty object {} is the function with the empty domain
detectMetricCols(cols) == metricLoop(cols, 1, <<>>)

\* ------------------------------------------------------------------ block quality

\* a row as scoreBlockQuality reads it: its trimmed name and its total
qualityRow(r, nameCol, totalCol) ==
    [n |-> Trim(Get(r, nameCol)),
     t |-> IF totalCol # <<>> THEN toNumber(Get(r, totalCol)) ELSE NoNumber]

qualityFixed(cols) ==
    (IF \E i \in DOMAIN cols : isNameHeader(cols[i].label) THEN 15 ELSE 0)
    + (IF \E i \in DOMAIN cols : Includes(normalizeHeader(cols[i].label), <<"zong","fen">>)
       THEN 15 ELSE 0)
    + (IF Len(cols) >= 6 THEN 3 ELSE 0)
    - (IF Len(cols) < 4 THEN 10 ELSE 0)

qualityOf(fixed, sample) ==
    LET seen == Len(sample)
        nameHit == CountIn(sample, LAMBDA x : isLikelyChineseName(x.n))
        totalHit == CountIn(sample, LAMBDA x : x.t.ok)
    IN  IF seen > 0 THEN <<fixed * seen + 20 * nameHit + 15 * totalHit, seen>>
        ELSE <<fixed, 1>>

\* the rows of the first 500 that have a name or a total ("continue" otherwise)
qualitySample(rows, nameCol, totalCol) ==
    SelectSeq([i \in DOMAIN Slice(rows, 500) |-> qualityRow(rows[i], nameCol, totalCol)],
              LAMBDA x : x.n # <<>> \/ x.t.ok)

qualityWith(block, nameCol, totalCol) ==
    qualityOf(qualityFixed(block.columns), qualitySample(block.rows, nameCol, totalCol))

scoreBlockQuality(block) ==
    IF block.columns = <<>> \/ block.rows = <<>> THEN <<-999, 1>>
    ELSE qualityWith(block, guessNameCol(block.rows, block.columns),
                     guessTotalCol(block.rows, block.columns))

\* "if (s > bestScore) { bestScore = s; best = b }", bestScore <<>> is -Infinity
betterBlock(b, s, best) ==
    IF best[2] = <<>> \/ RatGt(s, best[2]) THEN <<b, s>> ELSE best

\* the "pick best block" loop of importFiles: the first block of the greatest
\* score, best = <<block, score>>
RECURSIVE pickBest(_, _, _)
pickBest(blocks, k, best) ==
    IF k > Len(blocks) THEN best[1]
    ELSE pickBest(blocks, k + 1, betterBlock(blocks[k], scoreBlockQuality(blocks[k]), best))

\* ------------------------------------------------------------------ class inference

UNKNOWN_CLASS == <<"wei","zhi","ban","ji">>
WHOLE_SCHOOL == <<"quan","xiao">>
INSTRUCTIONS == <<"shuo","ming2">>

hasClassData(ex) ==
    /\ ex.classCol # <<>>
    /\ \E i \in DOMAIN Slice(ex.rows, 300) : Trim(Get(ex.rows[i], ex.classCol)) # <<>>

\* The index: nameToClasses maps a name to the classes seen for it, in the
\* order in which the Set received them (a Set iterates in insertion order);
\* classSet is the set of the classes (the code returns it sorted).
EmptyIndex == [classSet |-> {}, names |-> {}, nameToClasses |-> <<>>]

\* nameToClasses.get(name), undefined read as no class
ClassesOf(idx, name) ==
    IF name \in idx.names THEN idx.nameToClasses[name] ELSE <<>>

\* set.add(cls) on the Set of a name
addClass(old, cls) == IF cls \in Range(old) THEN old ELSE Append(old, cls)

\* the index after the pair (name, cls) of one row
indexPair(idx, name, cls) ==
    IF name = <<>> \/ cls = <<>> THEN idx
    ELSE [classSet |-> idx.classSet \cup {cls},
          names |-> idx.names \cup {name},
          nameToClasses |-> [n \in idx.names \cup {name} |->
                                IF n = name THEN addClass(ClassesOf(idx, name), cls)
                                ELSE idx.nameToClasses[n]]]

\* one row of buildClassIndex
indexRow(idx, ex, r) == indexPair(idx, Trim(Get(r, ex.nameCol)), Trim(Get(r, ex.classCol)))

RECURSIVE indexRows(_, _, _)
indexRows(idx, ex, k) ==
    IF k > Len(ex.rows) THEN idx
    ELSE indexRows(indexRow(idx, ex, ex.rows[k]), ex, k + 1)

\* indexes without hasClassData: C8 must reject it
indexes_anyColumn(ex) == ex.classCol # <<>> /\ ex.nameCol # <<>>

\* whether buildClassIndex reads the rows of ex
indexes(ex) == hasClassData(ex) /\ ex.classCol # <<>> /\ ex.nameCol # <<>>

RECURSIVE indexExams(_, _, _)
indexExams(idx, exams, k) ==
    IF k > Len(exams) THEN idx
    ELSE indexExams(IF indexes(exams[k]) THEN indexRows(idx, exams[k], 1) ELSE idx,
                    exams, k + 1)

buildClassIndex(exams) == indexExams(EmptyIndex, exams, 1)

\* rows.slice(0, n) of a sequence of any kind
Take(seq, n) == SubSeq(seq, 1, MinOf(n, Len(seq)))

\* seq without the later occurrences of a value
Dedupe(seq) ==
    SelectSeq([i \in DOMAIN seq |-> IF \E j \in 1..(i - 1) : seq[j] = seq[i] THEN <<>> ELSE seq[i]],
              LAMBDA n : n # <<>>)

\* sampleNames that samples a name once: C7 must reject it
sampleNames_distinct(ex, N) ==
    Take(Dedupe(SelectSeq([i \in DOMAIN ex.rows |-> Trim(Get(ex.rows[i], ex.nameCol))],
                          LAMBDA n : n # <<>>)), N)

\* the names inferSheetClass samples: the first N non-empty values of the name
\* column, in row order
sampleNames(ex, N) ==
    Take(SelectSeq([i \in DOMAIN ex.rows |-> Trim(Get(ex.rows[i], ex.nameCol))],
                   LAMBDA n : n # <<>>), N)

\* vote.set(c, (vote.get(c) ?? 0) + 1): vote is the sequence of the Map's
\* entries <<class, votes>>, in insertion order
addVote(vote, c) ==
    IF \E i \in DOMAIN vote : vote[i][1] = c
    THEN [i \in DOMAIN vote |-> IF vote[i][1] = c THEN <<c, vote[i][2] + 1>> ELSE vote[i]]
    ELSE Append(vote, <<c, 1>>)

RECURSIVE addVotes(_, _, _)
addVotes(vote, classes, k) ==
    IF k > Len(classes) THEN vote
    ELSE addVotes(addVote(vote, classes[k]), classes, k + 1)

\* one sampled name whose classes in the index are "classes"
tallyName(tally, classes) ==
    IF classes = <<>> THEN tally
    ELSE [vote |-> addVotes(tally.vote, classes, 1), hit |-> tally.hit + 1]

\* the voting loop over the sampled names from k on, tally = [vote, hit]
RECURSIVE tallyFrom(_, _, _, _)
tallyFrom(names, idx, k, tally) ==
    IF k > Len(names) THEN tally
    ELSE tallyFrom(names, idx, k + 1, tallyName(tally, ClassesOf(idx, names[k])))

tallyOf(names, idx) == tallyFrom(names, idx, 1, [vote |-> <<>>, hit |-> 0])

\* the entry with the most votes, the first of them in the Map's order
RECURSIVE bestVote(_, _, _)
bestVote(vote, k, best) ==
    IF k > Len(vote) THEN best
    ELSE bestVote(vote, k + 1, IF vote[k][2] > best[2] THEN vote[k] ELSE best)

\* decide with 0.6 for 0.7: C5 must reject it
decide_loose(rowCount, hit, bestC, bestV) ==
    IF rowCount >= 150 /\ 20 * bestV < 17 * hit THEN WHOLE_SCHOOL
    ELSE IF 10 * bestV >= 6 * hit THEN bestC
    ELSE UNKNOWN_CLASS

decide(rowCount, hit, bestC, bestV) ==
    IF rowCount >= 150 /\ 20 * bestV < 17 * hit THEN WHOLE_SCHOOL
    ELSE IF 10 * bestV >= 7 * hit THEN bestC
    ELSE UNKNOWN_CLASS

decideBest(rowCount, hit, best) == decide(rowCount, hit, best[1], best[2])

\* inferFromTally with 2 for 3: C6 must reject it
inferFromTally_two(rowCount, t) ==
    IF t.hit < 2 \/ t.vote = <<>> THEN UNKNOWN_CLASS
    ELSE decideBest(rowCount, t.hit, bestVote(t.vote, 1, <<<<>>, -1>>))

\* inferSheetClass from "if (hit < 3 || vote.size === 0)" on
inferFromTally(rowCount, t) ==
    IF t.hit < 3 \/ t.vote = <<>> THEN UNKNOWN_CLASS
    ELSE decideBest(rowCount, t.hit, bestVote(t.vote, 1, <<<<>>, -1>>))

\* inferSheetClass from the sampled names on
inferFromNames(rowCount, names, idx) ==
    IF Len(names) < 3 THEN UNKNOWN_CLASS
    ELSE inferFromTally(rowCount, tallyOf(names, idx))

inferSheetClass(ex, idx) ==
    IF hasClassData(ex) THEN ex.inferredClass
    ELSE IF ex.nameCol = <<>> THEN UNKNOWN_CLASS
    ELSE inferFromNames(Len(ex.rows), sampleNames(ex, 6), idx)

\* names, vote and hit as inferSheetClass leaves them when it returns
sampleFrom(names, idx) ==
    IF Len(names) < 3 THEN [names |-> names, vote |-> <<>>, hit |-> 0]
    ELSE [names |-> names, vote |-> tallyOf(names, idx).vote, hit |-> tallyOf(names, idx).hit]

sampleOf(ex, idx) ==
    IF hasClassData(ex) \/ ex.nameCol = <<>> THEN [names |-> <<>>, vote |-> <<>>, hit |-> 0]
    ELSE sampleFrom(sampleNames(ex, 6), idx)

\* the distinct non-empty trimmed values of the class column in the first 300
\* rows (the loop stops at the second; only 0, 1 or more is read)
distinctClasses(ex) ==
    {Trim(Get(ex.rows[i], ex.classCol)) : i \in DOMAIN Slice(ex.rows, 300)} \ {<<>>}

\* classOfSet that lets an empty sample fall through to the whole school: C4
\* must reject it
classOfSet_noUnknown(set) ==
    IF Cardinality(set) = 1 THEN CHOOSE v \in set : TRUE ELSE WHOLE_SCHOOL

classOfSet(set) ==
    IF Cardinality(set) = 1 THEN CHOOSE v \in set : TRUE
    ELSE IF Cardinality(set) >= 2 THEN WHOLE_SCHOOL
    ELSE UNKNOWN_CLASS

\* effectiveOf with the class column read ahead of the override: C3 must reject it
effectiveOf_columnFirst(ex, c) ==
    IF ex.classCol # <<>> /\ distinctClasses(ex) # {} THEN classOfSet(distinctClasses(ex))
    ELSE IF c # <<>> THEN c
    ELSE IF ex.inferredClass # <<>> THEN ex.inferredClass
    ELSE UNKNOWN_CLASS

effectiveOf(ex, c) ==
    IF c # <<>> THEN c
    ELSE IF ex.classCol # <<>> THEN classOfSet(distinctClasses(ex))
    ELSE IF ex.inferredClass # <<>> THEN ex.inferredClass
    ELSE UNKNOWN_CLASS

getEffectiveClass(ex) == effectiveOf(ex, Trim(ex.overrideClass))

\* ------------------------------------------------------------------ import of one sheet

makeExamId(fileName, sheetName) == fileName \o <<":", ":">> \o sheetName

\* the ratio test of the "functionally empty" check over the rows that were read:
\* x.named if the name cell is filled, x.classed if the class cell is filled
classColAfter(classCol, sample) ==
    LET seen == CountIn(sample, LAMBDA x : x.named)
        nonEmpty == CountIn(sample, LAMBDA x : x.named /\ x.classed)
    IN  IF classCol # <<>> /\ seen >= 10 /\ 10 * nonEmpty < seen THEN <<>> ELSE classCol

\* the class column after the "functionally empty" test of importFiles
\* (lines 435-459); the record does not read it
fixedClassCol(rows, classCol, nameCol) ==
    classColAfter(classCol,
        [i \in DOMAIN Slice(rows, MinOf(300, Len(rows))) |->
            [named |-> nameCol # <<>> /\ Trim(Get(rows[i], nameCol)) # <<>>,
             classed |-> Trim(Get(rows[i], classCol)) # <<>>]])

tinyOf(totalCol, nums) ==
    /\ totalCol # <<>>
    /\ CountIn(nums, LAMBDA n : n.ok) >= 10
    /\ 10 * CountIn(nums, LAMBDA n : NumInRange(n, 20)) >= 7 * CountIn(nums, LAMBDA n : n.ok)

\* the warning of lines 469-480
totalLooksTiny(rows, totalCol) ==
    tinyOf(totalCol, [i \in DOMAIN Slice(rows, 300) |-> toNumber(Get(rows[i], totalCol))])

\* { ...metricCols0, total: metricCols0.total || totalCol }
withTotal(metricCols0, totalCol) ==
    [m \in DOMAIN metricCols0 \cup {"total"} |->
        IF m = "total"
        THEN IF "total" \in DOMAIN metricCols0 THEN metricCols0["total"] ELSE totalCol
        ELSE metricCols0[m]]

\* the class column of the record that importFiles pushes (line 495)
recordClassCol(classCol, fixed) == classCol

\* recordNameCol that leaves the name column empty when there are several: C10
\* must reject it
recordNameCol_cleared(nameCols, rows, cols) ==
    IF Len(nameCols) >= 2 THEN <<>>
    ELSE IF nameCols # <<>> THEN nameCols[1] ELSE guessNameCol(rows, cols)

\* the name column of the record (line 432)
recordNameCol(nameCols, rows, cols) ==
    IF nameCols # <<>> THEN nameCols[1] ELSE guessNameCol(rows, cols)

\* classCol after "if (classCol && !hasAnyNonEmpty(rows, classCol, 400)) classCol = ''"
usableClassCol(rows, classCol) ==
    IF classCol # <<>> /\ ~hasAnyNonEmpty(rows, classCol, 400) THEN <<>> ELSE classCol

fatalErrorsOf(nameCols, nameCol) ==
    (IF Len(nameCols) >= 2 THEN <<[error |-> "multipleNameCols", n |-> Len(nameCols)]>>
     ELSE <<>>)
    \o (IF nameCol = <<>> THEN <<[error |-> "noNameCol", n |-> 0]>> ELSE <<>>)

\* the object pushed to "all" (lines 482-508)
recordOfRoles(fileName, sheetName, blocks, best, roles) ==
    [id |-> makeExamId(fileName, sheetName),
     fileName |-> fileName,
     sheetName |-> sheetName,
     examName |-> sheetName,
     blocks |-> blocks,
     blockId |-> best.blockId,
     cols |-> best.columns,
     rows |-> best.rows,
     idCol |-> guessIdCol(best.columns),
     nameCol |-> roles.nameCol,
     classCol |-> recordClassCol(roles.classCol,
                                 fixedClassCol(best.rows, roles.classCol, roles.nameCol)),
     totalCol |-> roles.totalCol,
     metricCols |-> withTotal(detectMetricCols(best.columns), roles.totalCol),
     scope |-> "auto",
     inferredClass |-> <<>>,
     overrideClass |-> <<>>,
     fatalErrors |-> fatalErrorsOf(roles.nameCols, roles.nameCol),
     warnings |-> IF totalLooksTiny(best.rows, roles.totalCol)
                  THEN <<"totalLooksTiny">> ELSE <<>>]

rolesOf(best, classCol, nameCols, totalCol) ==
    [classCol |-> classCol,
     nameCols |-> nameCols,
     nameCol |-> recordNameCol(nameCols, best.rows, best.columns),
     totalCol |-> totalCol]

recordOfBlock(fileName, sheetName, blocks, best) ==
    recordOfRoles(fileName, sheetName, blocks, best,
                  rolesOf(best, usableClassCol(best.rows, guessClassCol(best.columns)),
                          findAllNameCols(best.columns),
                          guessTotalCol(best.rows, best.columns)))

\* the body of the sheet loop from "pick best block" on: the record pushed
sheetRecord(fileName, sheetName, blocks) ==
    recordOfBlock(fileName, sheetName, blocks, pickBest(blocks, 1, <<blocks[1], <<>>>>))

\* isInstructionSheet without the trim: C1 must reject it
isInstructionSheet_untrimmed(sheetName) == sheetName = INSTRUCTIONS

\* whether the sheet loop skips the sheet before it parses it (line 403)
isInstructionSheet(sheetName) == Trim(sheetName) = INSTRUCTIONS

\* recordsOf with the inference fused into the first pass, each record inferred
\* from the index of what has been read of it: C2 must reject it
recordsOf_fused(fileName, sheetName, blocks) ==
    IF blocks = <<>> THEN <<>>
    ELSE <<[sheetRecord(fileName, sheetName, blocks) EXCEPT
              !.inferredClass = inferSheetClass(sheetRecord(fileName, sheetName, blocks),
                                                EmptyIndex)]>>

\* recordsOf that pushes no record for a sheet with a fatal error: C11 must
\* reject it
recordsOf_dropFatal(fileName, sheetName, blocks) ==
    IF blocks = <<>> \/ sheetRecord(fileName, sheetName, blocks).fatalErrors # <<>>
    THEN <<>>
    ELSE <<sheetRecord(fileName, sheetName, blocks)>>

recordsOf(fileName, sheetName, blocks) ==
    IF blocks = <<>> THEN <<>> ELSE <<sheetRecord(fileName, sheetName, blocks)>>

\* one pass of the sheet loop: the records the sheet adds to "all"
importSheet(fileName, sheet) ==
    IF isInstructionSheet(sheet.name) THEN <<>>
    ELSE recordsOf(fileName, sheet.name, parseSheetToBlocks(sheet))

\* the records of the sheets of one workbook from the sheet k on
RECURSIVE sheetsFrom(_, _, _)
sheetsFrom(fileName, sheets, k) ==
    IF k > Len(sheets) THEN <<>>
    ELSE importSheet(fileName, sheets[k]) \o sheetsFrom(fileName, sheets, k + 1)

\* the first pass of importFiles over the files from the file k on
RECURSIVE firstPass(_, _)
firstPass(batch, k) ==
    IF k > Len(batch) THEN <<>>
    ELSE sheetsFrom(batch[k].name, batch[k].sheets, 1) \o firstPass(batch, k + 1)

\* the second pass: every record inferred under the index of them all
secondPass(records, index) ==
    [i \in DOMAIN records |->
        [records[i] EXCEPT !.inferredClass = inferSheetClass(records[i], index)]]

\* what importFiles returns for a batch of files that can all be read
importFiles(batch) == secondPass(firstPass(batch, 1), buildClassIndex(firstPass(batch, 1)))

\* ------------------------------------------------------------------ sheets of the model

XM == <<"xing","ming">>
BJ == <<"ban","ji">>
ZF == <<"zong","fen">>
YW == <<"yu","wen">>
XH == <<"xue","hao">>
KH == <<"kao","hao">>
BZ == <<"bei","zhu">>
BJPM == <<"ban","ji","pai","ming">>

\* five students
N1 == <<"zhang","san">>
N2 == <<"li3","si">>
N3 == <<"wang","wu2">>
N4 == <<"zhao","liu">>
N5 == <<"qian","qi">>

CLASS_A == <<"1">>
CLASS_B == <<"2">>

Sheet(name, header, body) == [name |-> name, cells |-> <<header>> \o body, merges |-> <<>>]

\* n copies of row
Rep(row, n) == [i \in 1..n |-> row]

\* a sheet with a class column: N1 and N2 are in class 1, N3 in class 2, N4 is
\* listed in both
Roster ==
    Sheet(<<"qi2","zhong">>, <<XM, BJ, ZF>>,
          << <<N1, CLASS_A, <<"9","0">>>>, <<N2, CLASS_A, <<"8","5",".","5">>>>,
             <<N3, CLASS_B, <<"7","0">>>>, <<N4, CLASS_A, <<"6","6">>>>,
             <<N4, CLASS_B, <<"6","1">>>> >>)

\* a sheet without a class column whose name column holds the given names,
\* then pad rows without a name
Voters(names, pad) ==
    Sheet(<<"qi2","mo">>, <<XM, ZF, YW>>,
          [i \in DOMAIN names |-> <<names[i], <<"8","0">>, <<"7","5">>>>]
          \o Rep(<<<<>>, <<"6","0">>, <<"5","0">>>>, pad))

\* the instructions sheet of the template (its name carries a blank), holding
\* a table that would index N5 into class 1 if it were read
Instructions ==
    Sheet(<<" ","shuo","ming2">>, <<XM, BJ, ZF>>,
          << <<N5, CLASS_A, <<"1">>>>, <<N1, CLASS_B, <<"2">>>> >>)

\* a sheet whose name holds the word without being it: it is imported
Legend ==
    Sheet(<<"shuo","ming2","2">>, <<XM, BJ, ZF>>,
          << <<N5, CLASS_B, <<"3">>>>, <<N2, CLASS_A, <<"4">>>>, <<N2, <<>>, <<>>>> >>)

\* two columns read as name columns
TwoNames ==
    Sheet(<<"y","u","e","k","a","o">>, <<XM, <<"xue","sheng","xing","ming">>, ZF>>,
          << <<N1, N1, <<"9","0">>>>, <<N2, N2, <<"8","0">>>>, <<N3, N3, <<"7","0">>>> >>)

\* two columns only: no block is wide enough
Narrow ==
    Sheet(<<"b","e","i","z","h","u">>, <<XM, ZF>>, << <<N1, <<"9","0">>>> >>)

\* a class list without marks: no column is the total
ClassList ==
    Sheet(<<"m","i","n","g","d","a","n">>, <<XM, BJ, BZ>>,
          << <<N1, CLASS_A, <<"x">>>>, <<N2, CLASS_B, <<>>>> >>)

\* marks by subject under a student number: no column is headed as a name
\* and none as the total
SX == <<"shu","xue">>
Subjects ==
    Sheet(<<"c","e","y","a","n">>, <<XH, YW, SX>>,
          << <<<<"2","0","2","4","0","1">>, <<"8","8">>, <<"9","2">>>>,
             <<<<"2","0","2","4","0","2">>, <<"7","5">>, <<"6","0">>>> >>)

\* two class lists of the same three names, one for class 1 and one for
\* class 2, and the sheet of these names without a class column
ListA ==
    Sheet(<<"y","i","b","a","n">>, <<XM, BJ, ZF>>,
          << <<N1, CLASS_A, <<"9","0">>>>, <<N3, CLASS_A, <<"8","0">>>>,
             <<N5, CLASS_A, <<"7","0">>>> >>)

ListB ==
    Sheet(<<"e","r","b","a","n">>, <<XM, BJ, ZF>>,
          << <<N1, CLASS_B, <<"9","0">>>>, <<N3, CLASS_B, <<"8","0">>>>,
             <<N5, CLASS_B, <<"7","0">>>> >>)

\* every row is of class 5
OneClass ==
    Sheet(<<"w","u","b","a","n">>, <<XM, BJ, ZF>>,
          << <<N1, <<"5">>, <<"9","0">>>>, <<N2, <<" ","5">>, <<"8","0">>>> >>)

\* ------------------------------------------------------------------ state

VARIABLES
    pending,        \* the file selections the user is still to make
    files,          \* importFiles: the batch being imported
    pc,             \* importFiles: where the call stands ("idle": no call)
    fi,             \* importFiles: the file of the outer loop (1-based)
    si,             \* importFiles: the sheet of the inner loop (1-based)
    all,            \* importFiles: the records pushed so far
    idx,            \* importFiles: the class index, once built
    ii,             \* importFiles: the record of the inference loop (1-based)
    sampled,        \* inferSheetClass: names, vote and hit of the last call
    exams,          \* App: the imported exams
    activeExamId,   \* App: the exam selected
    probe,          \* getEffectiveClass: the record it is applied to
    shown           \* getEffectiveClass: the class it returned, once applied

vars == <<pending, files, pc, fi, si, all, idx, ii, sampled, exams, activeExamId, probe, shown>>

NoIndex == [built |-> FALSE, index |-> EmptyIndex]

\* inferSheetClass before it has sampled a name
NoSample == [names |-> <<>>, vote |-> <<>>, hit |-> 0]

NotShown == [done |-> FALSE, class |-> <<>>]

\* ------------------------------------------------------------------ batches

\* the longest run of sheets of a batch of the general family
MaxSheets == 3
\* the most names drawn freely for the name column of a voting sheet
MaxFree == 3

\* the size limit of onFilesChange, in MB
MAX_MB == 10

File(name, sheets) == [name |-> name, size |-> 1024, readable |-> TRUE, sheets |-> sheets]
\* a file whose bytes cannot be read or decoded
Unreadable(name) == [name |-> name, size |-> 1024, readable |-> FALSE, sheets |-> <<>>]
\* a file of the given size in bytes
Sized(f, size) == [f EXCEPT !.size = size]

FA == <<"a">>
FB == <<"b">>

SeqsUpTo(S, n) == UNION {[1..k -> S] : k \in 0..n}

\* the sheets of a workbook bear distinct names
Distinct(s) == \A i, j \in DOMAIN s : i # j => s[i].name # s[j].name

GeneralPool == {Roster, Voters(<<N1, N2, N3>>, 0), Instructions, Legend}

\* the sheets s in one file, or cut into two files after the k-th
Cut(s, k) ==
    IF k >= Len(s) THEN <<File(FA, s)>>
    ELSE <<File(FA, SubSeq(s, 1, k)), File(FB, SubSeq(s, k + 1, Len(s)))>>

GeneralBatches ==
    {Cut(s, k) : <<s, k>> \in
        {<<s, k>> \in SeqsUpTo(GeneralPool, MaxSheets) \X (1..MaxSheets) :
            s # <<>> /\ k <= Len(s) /\ Distinct(s)}}

UnreadableBatches ==
    { <<Unreadable(FA)>>,
      <<File(FA, <<Roster>>), Unreadable(FB)>>,
      <<Unreadable(FA), File(FB, <<Roster>>)>> }

\* batches with a file at the size limit, and one byte over it
SizedBatches ==
    { <<File(FA, <<Roster>>), Sized(File(FB, <<OneClass>>), MAX_MB * 1024 * 1024)>>,
      <<File(FA, <<Roster>>), Sized(File(FB, <<OneClass>>), MAX_MB * 1024 * 1024 + 1)>>,
      <<>> }

\* the name columns of the voting sheets: names drawn freely, as they are,
\* after four names that fill the sample, or ahead of the rows that make the
\* sheet a long one (150 rows and more)
VoterNames == SeqsUpTo({N1, N3, N4, N5}, MaxFree)

\* the same without the name that is listed in both classes
PlainNames == SeqsUpTo({N1, N3, N5}, MaxFree)

VoterSheets ==
    {Voters(n, 0) : n \in VoterNames}
    \cup {Voters(<<N1, N2, N1, N2>> \o n, 0) : n \in VoterNames}
    \cup {Voters(n, 150 - Len(n)) : n \in PlainNames}
    \cup {Voters(n, 149 - Len(n)) : n \in {<<N1, N2, N3>>, <<N1, N2, N4>>}}

VoteBatches ==
    {<<File(FA, <<Roster, v>>)>> : v \in VoterSheets}
    \cup {<<File(FA, <<Voters(n, 0)>>), File(FB, <<Roster>>)>> : n \in PlainNames}

\* a class column that is all but empty: k rows with a name, of which the
\* first j carry a class, and one row more with a class when late
Sparse(k, j, late) ==
    Sheet(<<"q","i","m","o">>, <<XM, BJ, ZF>>,
          [i \in 1..k |-> << <<N1[1], Lower[i]>>, IF i <= j THEN CLASS_A ELSE <<>>, <<"8","0">> >>]
          \o (IF late THEN << <<<<>>, CLASS_B, <<"7","0">>>> >> ELSE <<>>))

SparseBatches ==
    {<<File(FA, <<Sparse(k, j, late), Voters(<<N1, N2, N3>>, 0)>>)>> :
        <<k, j, late>> \in (9..11) \X (0..2) \X BOOLEAN}

\* a class column whose only value lies beyond the rows that hasClassData
\* reads: 300 rows of N1 without a class, then N5 in class 2
Late ==
    Sheet(<<"n","i","a","n","j","i">>, <<XM, BJ, ZF>>,
          Rep(<<N1, <<>>, <<"8","0">>>>, 300) \o << <<N5, CLASS_B, <<"7","0">>>> >>)

LateBatches ==
    { <<File(FA, <<Late, Voters(<<N5, N5, N5>>, 0)>>)>>,
      <<File(FA, <<Late>>), File(FB, <<Roster, Voters(<<N5, N5, N5>>, 0)>>)>> }

\* two name columns of which the first is empty and the second is filled, and
\* three name columns with data that does not look like names
TwoNamesB ==
    Sheet(<<"z","h","o","u","k","a","o">>, <<<<"ming","zi">>, XM, ZF>>,
          << <<<<>>, N1, <<"9","0">>>>, <<<<>>, N2, <<"8","0">>>>, <<<<>>, N3, <<"7","0">>>> >>)

ThreeNames ==
    Sheet(<<"c","e","y","a","n">>, <<XM, <<"xing"," ","ming">>, <<"ming","zi">>, ZF>>,
          << <<<<"1">>, <<"x">>, <<>>, <<"9","0">>>>, <<<<"2">>, <<>>, <<"y">>, <<"8","0">>>> >>)

NameBatches ==
    { <<File(FA, <<TwoNames>>)>>,
      <<File(FA, <<TwoNamesB>>)>>,
      <<File(FA, <<ThreeNames, Roster>>)>>,
      <<File(FA, <<Roster, TwoNames, Instructions>>)>>,
      <<File(FA, <<TwoNamesB>>), File(FB, <<ThreeNames>>)>>,
      <<File(FA, <<ClassList>>)>>,
      <<File(FA, <<ClassList, Voters(<<N1, N1, N1>>, 0)>>)>>,
      <<File(FA, <<Subjects>>)>>,
      <<File(FA, <<Roster, Subjects>>)>> }

\* batches with a sheet that yields no block
NarrowBatches ==
    { <<File(FA, <<Narrow>>)>>,
      <<File(FA, <<Roster, Narrow>>)>>,
      <<File(FA, <<Narrow, Instructions, Roster>>)>>,
      <<File(FA, <<ThreeNames, Narrow, Roster>>)>>,
      <<File(FA, <<Narrow>>), File(FB, <<Voters(<<N1, N2, N3>>, 0), Roster>>)>> }

\* batches in which two classes have as many votes
TieBatches ==
    { <<File(FA, <<ListA, ListB, Voters(<<N1, N3, N5>>, 0)>>)>>,
      <<File(FA, <<ListB>>), File(FB, <<Voters(<<N1, N3, N5>>, 0), ListA>>)>> }

ImportBatches ==
    TieBatches \cup GeneralBatches \cup UnreadableBatches \cup SizedBatches \cup VoteBatches
    \cup SparseBatches \cup LateBatches \cup NameBatches \cup NarrowBatches

\* the selections of one session: one batch, or two batches one after the
\* other (a roster and then the sheets to infer, and the reverse; a batch that
\* fails or an empty selection after a batch that was delivered)
TwoBatches ==
    { << <<File(FA, <<Roster>>)>>, <<File(FB, <<Voters(<<N1, N2, N1>>, 0)>>)>> >>,
      << <<File(FA, <<Voters(<<N1, N2, N1>>, 0)>>)>>, <<File(FB, <<Roster>>)>> >>,
      << <<File(FA, <<Roster, Voters(<<N1, N2, N1>>, 0)>>)>>,
         <<File(FA, <<Voters(<<N3, N3, N3>>, 0)>>)>> >>,
      << <<File(FA, <<Roster>>)>>, <<File(FA, <<OneClass>>), File(FB, <<Voters(<<N1, N2, N1>>, 0)>>)>> >>,
      << <<File(FA, <<Roster>>)>>, <<File(FA, <<Voters(<<N1, N1, N1>>, 0)>>), Unreadable(FB)>> >>,
      << <<File(FA, <<Roster>>)>>,
         <<File(FB, <<Voters(<<N1, N1, N1>>, 0)>>),
           Sized(File(<<"c">>, <<OneClass>>), MAX_MB * 1024 * 1024 + 1)>> >>,
      << <<File(FA, <<Roster>>)>>, <<>> >> }

Sessions == {<<b>> : b \in ImportBatches} \cup TwoBatches

\* ------------------------------------------------------------------ importFiles

\* "if (f.size > MAX_MB * 1024 * 1024)"
tooLarge(f) == f.size > MAX_MB * 1024 * 1024

\* whether onFilesChange gets as far as the call of importFiles
accepted(batch) == batch # <<>> /\ \A i \in DOMAIN batch : ~tooLarge(batch[i])

\* onFilesChange up to the call of importFiles
OnFilesChange ==
    /\ pc = "idle"
    /\ pending # <<>>
    /\ pending' = Tail(pending)
    /\ files' = Head(pending)
    /\ pc' = IF accepted(Head(pending)) THEN "read" ELSE "idle"
    /\ fi' = 1
    /\ si' = 1
    /\ ii' = 1
    /\ all' = <<>>
    /\ idx' = NoIndex
    /\ sampled' = NoSample
    /\ UNCHANGED <<exams, activeExamId, probe, shown>>

\* await f.arrayBuffer() and XLSX.read: a failure rejects the call, which
\* onFilesChange catches
ReadFile ==
    /\ pc = "read"
    /\ pc' = IF files[fi].readable THEN "sheets" ELSE "idle"
    /\ si' = 1
    /\ UNCHANGED <<pending, files, fi, all, idx, ii, sampled, exams, activeExamId, probe, shown>>

\* one pass of the sheet loop; after the last sheet of a file the file loop
\* goes on, and after the last file the first pass is over
ImportSheet ==
    /\ pc = "sheets"
    /\ all' = all \o importSheet(files[fi].name, files[fi].sheets[si])
    /\ IF si < Len(files[fi].sheets)
       THEN si' = si + 1 /\ UNCHANGED <<fi, pc>>
       ELSE /\ si' = 1
            /\ fi' = fi + 1
            /\ pc' = IF fi < Len(files) THEN "read" ELSE "index"
    /\ UNCHANGED <<pending, files, idx, ii, sampled, exams, activeExamId, probe, shown>>

\* BuildIndex that adds the records of the batch to those of the exams
\* delivered before: C16 must reject it
BuildIndex_carried ==
    /\ pc = "index"
    /\ idx' = [built |-> TRUE, index |-> buildClassIndex(exams \o all)]
    /\ ii' = 1
    /\ pc' = IF all = <<>> THEN "deliver" ELSE "infer"
    /\ UNCHANGED <<pending, files, fi, si, all, sampled, exams, activeExamId, probe, shown>>

BuildIndex ==
    /\ pc = "index"
    /\ idx' = [built |-> TRUE, index |-> buildClassIndex(all)]
    /\ ii' = 1
    /\ pc' = IF all = <<>> THEN "deliver" ELSE "infer"
    /\ UNCHANGED <<pending, files, fi, si, all, sampled, exams, activeExamId, probe, shown>>

\* one pass of "for (const ex of all) ex.inferredClass = inferSheetClass(ex, idx)"
InferOne ==
    /\ pc = "infer"
    /\ all' = [all EXCEPT ![ii].inferredClass = inferSheetClass(all[ii], idx.index)]
    /\ sampled' = sampleOf(all[ii], idx.index)
    /\ ii' = ii + 1
    /\ pc' = IF ii < Len(all) THEN "infer" ELSE "deliver"
    /\ UNCHANGED <<pending, files, fi, si, idx, exams, activeExamId, probe, shown>>

\* the exam selected once the effect "activeExamId must be in exams" has run
activeFix(list, id) ==
    IF list = <<>> THEN <<>>
    ELSE IF \E i \in DOMAIN list : list[i].id = id THEN id
    ELSE list[1].id

\* all[0]?.id ?? ""
firstId(list) == IF list = <<>> THEN <<>> ELSE list[1].id

\* Deliver that appends the records to the exams: C30 must reject it
Deliver_append ==
    /\ pc = "deliver"
    /\ exams' = exams \o all
    /\ activeExamId' = activeFix(exams \o all, firstId(all))
    /\ pc' = "idle"
    /\ UNCHANGED <<pending, files, fi, si, all, idx, ii, sampled, probe, shown>>

\* importFiles returns: setExams(all), setActiveExamId(all[0]?.id ?? "")
Deliver ==
    /\ pc = "deliver"
    /\ exams' = all
    /\ activeExamId' = activeFix(all, firstId(all))
    /\ pc' = "idle"
    /\ UNCHANGED <<pending, files, fi, si, all, idx, ii, sampled, probe, shown>>

NextImport ==
    \/ OnFilesChange
    \/ ReadFile
    \/ ImportSheet
    \/ BuildIndex
    \/ InferOne
    \/ Deliver

\* a record as far as getEffectiveClass reads it
Probe(classCol, rows, inferredClass, overrideClass) ==
    [classCol |-> classCol, rows |-> rows, inferredClass |-> inferredClass,
     overrideClass |-> overrideClass]

NoProbe == Probe(<<>>, <<>>, <<>>, <<>>)

InitWith(sessions) ==
    /\ pending \in sessions
    /\ files = <<>>
    /\ pc = "idle"
    /\ fi = 1
    /\ si = 1
    /\ ii = 1
    /\ all = <<>>
    /\ idx = NoIndex
    /\ sampled = NoSample
    /\ exams = <<>>
    /\ activeExamId = <<>>
    /\ probe = NoProbe
    /\ shown = NotShown

InitImport == InitWith(Sessions)

\* importFiles on the batches of every session of the model
SpecImport == InitImport /\ [][NextImport]_vars

\* ------------------------------------------------------------------ getEffectiveClass

\* the most rows of a record drawn cell by cell
MaxProbeRows == 2

\* a row with the name N1 and the class cell v
ClassRow(v) == [k \in {XM, BJ} |-> IF k = XM THEN N1 ELSE v]

ProbeCells == {<<>>, <<" ">>, <<"5">>, <<" ","5">>, <<"6">>}

\* rows drawn cell by cell, and rows whose class cells are empty up to the
\* 300th and filled from the 301st on or from the 300th on
ProbeRows ==
    SeqsUpTo({ClassRow(v) : v \in ProbeCells}, MaxProbeRows)
    \cup {Rep(ClassRow(<<>>), n) \o <<ClassRow(<<"5">>)>> : n \in {299, 300}}

ProbeOverrides == {<<>>, <<" ">>, <<"3">>, <<" ","3"," ">>, UNKNOWN_CLASS}

ProbeInferred == {<<>>, <<"7">>, WHOLE_SCHOOL, UNKNOWN_CLASS}

Probes ==
    {Probe(c, r, i, o) :
        <<c, r, i, o>> \in {<<>>, BJ} \X ProbeRows \X ProbeInferred \X ProbeOverrides}

\* a collaborator asks for the effective class of the record
Resolve ==
    /\ ~shown.done
    /\ shown' = [done |-> TRUE, class |-> getEffectiveClass(probe)]
    /\ UNCHANGED <<pending, files, pc, fi, si, all, idx, ii, sampled, exams, activeExamId, probe>>

InitClass ==
    /\ pending = <<>>
    /\ files = <<>>
    /\ pc = "idle"
    /\ fi = 1
    /\ si = 1
    /\ ii = 1
    /\ all = <<>>
    /\ idx = NoIndex
    /\ sampled = NoSample
    /\ exams = <<>>
    /\ activeExamId = <<>>
    /\ probe \in Probes
    /\ shown = NotShown

NextClass == Resolve

\* getEffectiveClass on every record of the bounded family
SpecClass == InitClass /\ [][NextClass]_vars

\* ------------------------------------------------------------------ guessTotalCol

\* the most columns of a block drawn column by column
MaxTotalCols == 3

\* a column of a sheet: its header and its cells in the two data rows
Col(header, cells) == [header |-> header, cells |-> cells]

\* name, student number (six digits; one and two digits), exam number, class
\* rank, total (empty; of marks; of text), a subject and a column of text
TotalCols ==
    { Col(XM, <<N1, N2>>),
      Col(XH, << <<"1","0","0","0","0","1">>, <<"1","0","0","0","0","2">> >>),
      Col(XH, << <<"1">>, <<"1","2">> >>),
      Col(KH, << <<"7">>, <<"8">> >>),
      Col(BJPM, << <<"1">>, <<"2">> >>),
      Col(ZF, << <<>>, <<" ">> >>),
      Col(ZF, << <<"5","0","0">>, <<"4","8","0",".","5">> >>),
      Col(YW, << <<"9","0">>, <<"8","0">> >>),
      Col(ZF, << <<"x">>, <<"y">> >>),
      Col(BZ, << <<"x">>, <<>> >>) }

\* the sheet with the given columns, and the block the parser makes of it
ColsSheet(cs) ==
    Sheet(<<"s">>, [c \in DOMAIN cs |-> cs[c].header],
          [r \in 1..2 |-> [c \in DOMAIN cs |-> cs[c].cells[r]]])

TotalBlocks ==
    UNION {{parseSheetToBlocks(ColsSheet(cs))[1] : cs \in [1..w -> TotalCols]} :
              w \in 3..MaxTotalCols}

NoTotal == [done |-> FALSE, total |-> <<>>]

\* the import asks for the total column of the block
GuessTotal ==
    /\ ~shown.done
    /\ shown' = [done |-> TRUE, total |-> guessTotalCol(probe.rows, probe.columns)]
    /\ UNCHANGED <<pending, files, pc, fi, si, all, idx, ii, sampled, exams, activeExamId, probe>>

InitTotal ==
    /\ pending = <<>>
    /\ files = <<>>
    /\ pc = "idle"
    /\ fi = 1
    /\ si = 1
    /\ ii = 1
    /\ all = <<>>
    /\ idx = NoIndex
    /\ sampled = NoSample
    /\ exams = <<>>
    /\ activeExamId = <<>>
    /\ probe \in TotalBlocks
    /\ shown = NoTotal

NextTotal == GuessTotal

\* guessTotalCol on every block of the bounded family
SpecTotal == InitTotal /\ [][NextTotal]_vars

\* ------------------------------------------------------------------ App

\* hasUsableClassCol of App.tsx: a class column filled in one of the first
\* 300 rows
hasUsableClassCol(ex) ==
    /\ ex.classCol # <<>>
    /\ \E i \in DOMAIN Slice(ex.rows, 300) : Trim(Get(ex.rows[i], ex.classCol)) # <<>>

\* updateExam that patches every exam: C18 must reject it
updateExam_every(list, examId, field, value) ==
    [i \in DOMAIN list |-> [list[i] EXCEPT ![field] = value]]

\* setExams(prev => prev.map(x => x.id === examId ? {...x, ...patch} : x)) for
\* a patch of one field
updateExam(list, examId, field, value) ==
    [i \in DOMAIN list |->
        IF list[i].id = examId THEN [list[i] EXCEPT ![field] = value] ELSE list[i]]

\* exams.find(e => e.id === activeExamId) as a position, 0 for null
activeExam ==
    IF \E i \in DOMAIN exams : exams[i].id = activeExamId
    THEN CHOOSE i \in DOMAIN exams :
            /\ exams[i].id = activeExamId
            /\ \A j \in DOMAIN exams : exams[j].id = activeExamId => i <= j
    ELSE 0

\* validOverride that accepts every draft: C29 must reject it
validOverride_any(v) == TRUE

\* the test of saveOverrideClass on the trimmed draft: empty, one to three
\* digits, or the unknown class
validOverride(v) ==
    \/ v = <<>>
    \/ (Len(v) <= 3 /\ \A i \in DOMAIN v : IsDigit(v[i]))
    \/ v = UNKNOWN_CLASS

\* what the user types in the override field and in the exam name field
OverrideDrafts ==
    {<<>>, <<"3">>, <<" ","3"," ">>, <<"1","2","3">>, <<"1","2","3","4">>, <<"3","b">>,
     UNKNOWN_CLASS}

ExamNames == {<<>>, <<"q","1">>}

\* the exam Select: setActiveExamId(v || ""), then the effect on activeExamId
SelectExam ==
    /\ \E v \in {exams[i].id : i \in DOMAIN exams} \cup {<<>>} :
          activeExamId' = activeFix(exams, v)
    /\ UNCHANGED <<pending, files, pc, fi, si, all, idx, ii, sampled, exams, probe, shown>>

\* the override editor is drawn for the active exam without a usable class
\* column
EditorShown == activeExam # 0 /\ ~hasUsableClassCol(exams[activeExam])

\* saveOverrideClass with the draft that the user typed
SaveOverrideClass ==
    /\ EditorShown
    /\ \E draft \in OverrideDrafts :
          exams' = IF validOverride(Trim(draft))
                   THEN updateExam(exams, exams[activeExam].id, "overrideClass", Trim(draft))
                   ELSE exams
    /\ UNCHANGED <<pending, files, pc, fi, si, all, idx, ii, sampled, activeExamId, probe, shown>>

\* clearOverrideClass; its button is drawn when the override is not empty
ClearOverrideClass ==
    /\ EditorShown
    /\ exams[activeExam].overrideClass # <<>>
    /\ exams' = updateExam(exams, exams[activeExam].id, "overrideClass", <<>>)
    /\ UNCHANGED <<pending, files, pc, fi, si, all, idx, ii, sampled, activeExamId, probe, shown>>

\* onChange of the exam name field
EditExamName ==
    /\ activeExam # 0
    /\ \E name \in ExamNames :
          exams' = updateExam(exams, exams[activeExam].id, "examName", name)
    /\ UNCHANGED <<pending, files, pc, fi, si, all, idx, ii, sampled, activeExamId, probe, shown>>

OnClearAll ==
    /\ exams' = <<>>
    /\ activeExamId' = <<>>
    /\ UNCHANGED <<pending, files, pc, fi, si, all, idx, ii, sampled, probe, shown>>

\* the sessions of the user interface: one import, and an import that
\* replaces the exams of an earlier one
UISessions ==
    { << <<File(FA, <<Roster, Voters(<<N1, N2, N1>>, 0)>>)>> >>,
      << <<File(FA, <<Voters(<<N1, N2, N1>>, 0)>>)>>, <<File(FB, <<ClassList>>)>> >> }

InitUI == InitWith(UISessions)

NextUI ==
    \/ NextImport
    \/ SelectExam
    \/ SaveOverrideClass
    \/ ClearOverrideClass
    \/ EditExamName
    \/ OnClearAll

\* the imports and the user at the exam form
SpecUI == InitUI /\ [][NextUI]_vars

\* ------------------------------------------------------------------ getExamStatus

\* duplicateCountByExamId?.get(ex.id) ?? 0: the map may be left out, and may
\* have no entry for the exam
dupOf(dups, id) ==
    IF dups.given /\ id \in DOMAIN dups.count THEN dups.count[id] ELSE 0

\* getExamStatus without the test of the total column: C19 must reject it
getExamStatus_noTotalTest(ex, dups) ==
    IF Len(ex.fatalErrors) > 0 THEN "fail"
    ELSE IF dupOf(dups, ex.id) > 0 THEN "warn"
    ELSE IF Len(ex.warnings) > 0 THEN "warn"
    ELSE "ok"

getExamStatus(ex, dups) ==
    IF Len(ex.fatalErrors) > 0 THEN "fail"
    ELSE IF dupOf(dups, ex.id) > 0 THEN "warn"
    ELSE IF ex.totalCol = <<>> THEN "warn"
    ELSE IF Len(ex.warnings) > 0 THEN "warn"
    ELSE "ok"

\* the most fatal errors, warnings and duplicate names of a record drawn
MaxNotes == 2

\* the map of the duplicate counts: left out, without the exam, or with a
\* count for it
DupMaps ==
    {[given |-> FALSE, count |-> <<>>], [given |-> TRUE, count |-> <<>>]}
    \cup {[given |-> TRUE, count |-> [id \in {makeExamId(FA, ZF)} |-> n]] : n \in 0..MaxNotes}

\* a record as far as getExamStatus reads it, with the map it is given
StatusProbes ==
    {[ex |-> [id |-> makeExamId(FA, ZF),
              fatalErrors |-> Rep([error |-> "noNameCol"], f),
              warnings |-> Rep("totalLooksTiny", w),
              totalCol |-> t],
      dups |-> d] :
        <<f, w, t, d>> \in (0..MaxNotes) \X (0..MaxNotes)
                           \X {<<>>, ZF \o <<"_","_","2">>} \X DupMaps}

NoStatus == [done |-> FALSE, status |-> "none"]

\* the exam list asks for the status of the record
ShowStatus ==
    /\ ~shown.done
    /\ shown' = [done |-> TRUE, status |-> getExamStatus(probe.ex, probe.dups)]
    /\ UNCHANGED <<pending, files, pc, fi, si, all, idx, ii, sampled, exams, activeExamId, probe>>

InitStatus ==
    /\ pending = <<>>
    /\ files = <<>>
    /\ pc = "idle"
    /\ fi = 1
    /\ si = 1
    /\ ii = 1
    /\ all = <<>>
    /\ idx = NoIndex
    /\ sampled = NoSample
    /\ exams = <<>>
    /\ activeExamId = <<>>
    /\ probe \in StatusProbes
    /\ shown = NoStatus

NextStatus == ShowStatus

\* getExamStatus on every record of the bounded family
SpecStatus == InitStatus /\ [][NextStatus]_vars

\* ------------------------------------------------------------------ splitBlocks

\* the most columns of a view drawn column by column
MaxWidth == 7

\* a column of a view of three rows: a header over an empty cell, a cell under
\* an empty header, and a column empty in the first two rows and filled in
\* the third
HeaderOnly == << <<"x">>, <<>>, <<"1">> >>
DataOnly == << <<" ">>, <<"1">>, <<"2">> >>
GapCol == << <<>>, <<" ">>, <<"3">> >>

ColumnShapes == {HeaderOnly, DataOnly, GapCol}

\* the view of the given columns, cut to its first n rows
ViewOf(cs, n) == [r \in 1..n |-> [c \in DOMAIN cs |-> cs[c][r]]]

\* a table of a columns, a gap of k columns and a table of b columns
Wide(a, k, b) ==
    [c \in 1..(a + k + b) |-> IF c > a /\ c <= a + k THEN GapCol ELSE HeaderOnly]

SplitViews ==
    {ViewOf(cs, n) : <<cs, n>> \in
        ((UNION {[1..w -> ColumnShapes] : w \in 1..MaxWidth})
         \cup {Wide(a, k, b) : <<a, k, b>> \in {3, 5} \X {0, 1, 2} \X {3, 5}})
        \X {1, 3}}

NoSplit == [done |-> FALSE, ranges |-> <<>>]

\* the parser splits the view under the headers it has built for it
SplitView ==
    /\ ~shown.done
    /\ shown' = [done |-> TRUE, ranges |-> splitBlocks(probe, buildHeaders(probe).headers)]
    /\ UNCHANGED <<pending, files, pc, fi, si, all, idx, ii, sampled, exams, activeExamId, probe>>

InitSplit ==
    /\ pending = <<>>
    /\ files = <<>>
    /\ pc = "idle"
    /\ fi = 1
    /\ si = 1
    /\ ii = 1
    /\ all = <<>>
    /\ idx = NoIndex
    /\ sampled = NoSample
    /\ exams = <<>>
    /\ activeExamId = <<>>
    /\ probe \in SplitViews
    /\ shown = NoSplit

NextSplit == SplitView

\* splitBlocks on every view of the bounded family
SpecSplit == InitSplit /\ [][NextSplit]_vars

\* ------------------------------------------------------------------ detectHeaderStartRow

\* the most rows of a matrix drawn row by row
MaxRows == 4

\* the rows of a sheet: a title (one cell of 6 characters or more, with a
\* keyword in it or not), an empty row, a row of two cells without a
\* keyword, a row of one short cell that is a keyword, a row of three numbers,
\* and header rows of four and of five cells
TitleRow == << <<"2","0","2","4","qi2","zhong">>, <<>>, <<" ">>, <<>>, <<>> >>
TitleKwRow == << <<>>, <<"qi2","zhong","zong","fen","biao","1">>, <<>>, <<>>, <<>> >>
EmptyRow == << <<>>, <<>>, <<" ">>, <<>>, <<>> >>
SparseRow == << N1, <<"9","0">>, <<>>, <<>>, <<>> >>
ShortKwRow == << <<>>, ZF, <<>>, <<>>, <<>> >>
DataRow == << <<"1">>, <<"9","0">>, <<"8","0">>, <<>>, <<>> >>
HeaderRow4 == << XM, BJ, ZF, YW, <<>> >>
HeaderRow5 == << XM, BJ, ZF, YW, BZ >>

RowKinds ==
    {TitleRow, TitleKwRow, EmptyRow, SparseRow, ShortKwRow, DataRow, HeaderRow4, HeaderRow5}

\* matrices drawn row by row, and matrices whose header row is the 18th row
\* (the last one scanned) or the 19th
HeaderMatrices ==
    (UNION {[1..n -> RowKinds] : n \in 1..MaxRows})
    \cup {<<first>> \o Rep(EmptyRow, n) \o <<HeaderRow4>> :
             <<first, n>> \in {TitleRow, SparseRow} \X {16, 17}}

NoHeaderRow == [done |-> FALSE, row |-> 0]

\* the parser looks for the header row of the matrix
DetectHeader ==
    /\ ~shown.done
    /\ shown' = [done |-> TRUE, row |-> detectHeaderStartRow(probe)]
    /\ UNCHANGED <<pending, files, pc, fi, si, all, idx, ii, sampled, exams, activeExamId, probe>>

InitHeader ==
    /\ pending = <<>>
    /\ files = <<>>
    /\ pc = "idle"
    /\ fi = 1
    /\ si = 1
    /\ ii = 1
    /\ all = <<>>
    /\ idx = NoIndex
    /\ sampled = NoSample
    /\ exams = <<>>
    /\ activeExamId = <<>>
    /\ probe \in HeaderMatrices
    /\ shown = NoHeaderRow

NextHeader == DetectHeader

\* detectHeaderStartRow on every matrix of the bounded family
SpecHeader == InitHeader /\ [][NextHeader]_vars

\* ------------------------------------------------------------------ detectMetricCols

\* the most columns of a header drawn column by column
MaxMetricCols == 3

\* headers of rank columns (class rank; grade rank; school rank; "class
\* row"; "level rank"; class and grade together; a rank without a scope; a
\* grade without a rank) and of two score columns
MetricHeaders ==
    { BJPM,
      <<"nian","ji","pai","ming">>,
      <<"xiao","nei","_","ming","ci">>,
      <<"ban","pai">>,
      <<"ji","pai","ming">>,
      <<"ban","ji","nian","ji","pai","ming">>,
      <<"pai","ming">>,
      <<"nian","ji">>,
      ZF,
      YW }

\* the columns that makeUniqueColumns makes of the headers
MetricColumns ==
    UNION {{makeUniqueColumns(hs, 0, w - 1) : hs \in [1..w -> MetricHeaders]} :
              w \in 1..MaxMetricCols}

NoMetrics == [done |-> FALSE, metricCols |-> <<>>]

\* the import asks for the metric columns of the block
DetectMetrics ==
    /\ ~shown.done
    /\ shown' = [done |-> TRUE, metricCols |-> detectMetricCols(probe)]
    /\ UNCHANGED <<pending, files, pc, fi, si, all, idx, ii, sampled, exams, activeExamId, probe>>

InitMetric ==
    /\ pending = <<>>
    /\ files = <<>>
    /\ pc = "idle"
    /\ fi = 1
    /\ si = 1
    /\ ii = 1
    /\ all = <<>>
    /\ idx = NoIndex
    /\ sampled = NoSample
    /\ exams = <<>>
    /\ activeExamId = <<>>
    /\ probe \in MetricColumns
    /\ shown = NoMetrics

NextMetric == DetectMetrics

\* detectMetricCols on every header of the bounded family
SpecMetric == InitMetric /\ [][NextMetric]_vars

\* ------------------------------------------------------------------ buildHeaders

\* the most columns of a view whose two first rows are drawn cell by cell
MaxHeaderWidth == 3

\* the cells of row 0 and of row 1
TopCells == {<<>>, XM, ZF}
NextCells == {<<>>, <<"9","0">>, YW}

HeaderViews ==
    UNION {{<<r0, r1>> : <<r0, r1>> \in [1..w -> TopCells] \X [1..w -> NextCells]} :
              w \in 1..MaxHeaderWidth}

NoHeaders == [done |-> FALSE, headers |-> <<>>, headerRowsUsed |-> 0]

\* the parser builds the headers of the view
BuildHeaders ==
    /\ ~shown.done
    /\ shown' = [done |-> TRUE,
                 headers |-> buildHeaders(probe).headers,
                 headerRowsUsed |-> buildHeaders(probe).headerRowsUsed]
    /\ UNCHANGED <<pending, files, pc, fi, si, all, idx, ii, sampled, exams, activeExamId, probe>>

InitHeaders ==
    /\ pending = <<>>
    /\ files = <<>>
    /\ pc = "idle"
    /\ fi = 1
    /\ si = 1
    /\ ii = 1
    /\ all = <<>>
    /\ idx = NoIndex
    /\ sampled = NoSample
    /\ exams = <<>>
    /\ activeExamId = <<>>
    /\ probe \in HeaderViews
    /\ shown = NoHeaders

NextHeaders == BuildHeaders

\* buildHeaders on every view of the bounded family
SpecHeaders == InitHeaders /\ [][NextHeaders]_vars

\* ------------------------------------------------------------------ makeUniqueColumns

\* the most headers of a view drawn header by header
MaxHeaders == 3

\* header texts: the name, the name with blanks and in full-width parentheses
\* (both have the norm of another text of the set), no text, the fallback key
\* itself, and a text that ends like a key
KeyHeaders ==
    { XM, <<" ","xing"," ","ming">>, <<"flp","X","frp">>, <<"(","x",")">>, <<>>,
      <<"c","o","l">>, <<"x","_","_","1">>, <<"x">> }

\* the headers of a view with the range of one block
KeyProbes ==
    {[headers |-> hs, start |-> s, end |-> e] :
        <<hs, s, e>> \in {<<hs, s, e>> \in
            (UNION {[1..w -> KeyHeaders] : w \in 1..MaxHeaders})
            \X (0..(MaxHeaders - 1)) \X (0..(MaxHeaders - 1)) :
                s <= e /\ e < Len(hs)}}

NoColumns == [done |-> FALSE, columns |-> <<>>]

\* the parser makes the columns of the block
MakeColumns ==
    /\ ~shown.done
    /\ shown' = [done |-> TRUE,
                 columns |-> makeUniqueColumns(probe.headers, probe.start, probe.end)]
    /\ UNCHANGED <<pending, files, pc, fi, si, all, idx, ii, sampled, exams, activeExamId, probe>>

InitColumns ==
    /\ pending = <<>>
    /\ files = <<>>
    /\ pc = "idle"
    /\ fi = 1
    /\ si = 1
    /\ ii = 1
    /\ all = <<>>
    /\ idx = NoIndex
    /\ sampled = NoSample
    /\ exams = <<>>
    /\ activeExamId = <<>>
    /\ probe \in KeyProbes
    /\ shown = NoColumns

NextColumns == MakeColumns

\* makeUniqueColumns on the headers of the bounded family
SpecColumns == InitColumns /\ [][NextColumns]_vars

\* ------------------------------------------------------------------ applyMergesToMatrix

\* the most merge ranges of a sheet drawn range by range
MaxMerges == 2

Merge(sr, sc, er, ec) == [sr |-> sr, sc |-> sc, er |-> er, ec |-> ec]

\* merge ranges over a sheet of two rows and three columns; some reach the
\* row under the last row and the column right of the last column
MergePool ==
    { Merge(0, 0, 0, 1), Merge(0, 1, 0, 2), Merge(0, 0, 1, 0), Merge(1, 1, 1, 2),
      Merge(0, 2, 2, 3), Merge(1, 0, 2, 1) }

\* the ranges of a sheet do not overlap
Overlap(m, n) == m.sr <= n.er /\ n.sr <= m.er /\ m.sc <= n.ec /\ n.sc <= m.ec
Disjoint(ms) == \A i, j \in DOMAIN ms : i # j => ~Overlap(ms[i], ms[j])

\* a cell of the small sheets: empty, blank, or a text of its own
SmallCells(c) == {<<>>, <<" ">>, <<"v", NatToStr(c)[1]>>}

\* the first row of a small sheet is drawn cell by cell; its second row is
\* empty or filled
SmallSheets ==
    {[r \in 1..2 |-> IF r = 1 THEN top ELSE [c \in 1..3 |-> IF low THEN <<"w", NatToStr(c)[1]>> ELSE <<>>]] :
        <<top, low>> \in {t \in [1..3 -> {<<>>, <<" ">>, <<"v","0">>, <<"v","1">>, <<"v","2">>}] :
                             \A c \in 1..3 : t[c] \in SmallCells(c - 1)}
                         \X BOOLEAN}

\* a sheet of 33 rows and one column with a text in the rows 28 and 31, and
\* ranges that cross the 30th row or lie under it
TallCells == [r \in 1..33 |-> <<IF r = 29 THEN <<"t">> ELSE IF r = 32 THEN <<"u">> ELSE <<>>>>]
TallMerges == { <<Merge(28, 0, 30, 1)>>, <<Merge(31, 0, 32, 0)>>, <<Merge(28, 0, 29, 0), Merge(31, 0, 32, 0)>> }

MergeProbes ==
    {[name |-> <<"s">>, cells |-> cells, merges |-> ms] :
        <<cells, ms>> \in SmallSheets \X {ms \in SeqsUpTo(MergePool, MaxMerges) : Disjoint(ms)}}
    \cup {[name |-> <<"s">>, cells |-> TallCells, merges |-> ms] : ms \in TallMerges}

NoMatrix == [done |-> FALSE, matrix |-> <<>>]

\* parseSheetToBlocks fills the merged cells of the first 30 rows
ApplyMergesToMatrix ==
    /\ ~shown.done
    /\ shown' = [done |-> TRUE, matrix |-> applyMergesToMatrix(probe, probe.cells, 30)]
    /\ UNCHANGED <<pending, files, pc, fi, si, all, idx, ii, sampled, exams, activeExamId, probe>>

InitMerge ==
    /\ pending = <<>>
    /\ files = <<>>
    /\ pc = "idle"
    /\ fi = 1
    /\ si = 1
    /\ ii = 1
    /\ all = <<>>
    /\ idx = NoIndex
    /\ sampled = NoSample
    /\ exams = <<>>
    /\ activeExamId = <<>>
    /\ probe \in MergeProbes
    /\ shown = NoMatrix

NextMerge == ApplyMergesToMatrix

\* applyMergesToMatrix on every sheet of the bounded family
SpecMerge == InitMerge /\ [][NextMerge]_vars

\* ------------------------------------------------------------------ properties

\* the records of "all" that the second pass has inferred
Inferred ==
    IF ~idx.built THEN {}
    ELSE IF pc = "infer" THEN 1..(ii - 1)
    ELSE DOMAIN all

\* a class column that is set and filled in one of the first 300 rows
HasClassValue(ex) ==
    /\ ex.classCol # <<>>
    /\ \E i \in DOMAIN ex.rows : i <= 300 /\ Trim(Get(ex.rows[i], ex.classCol)) # <<>>

NameAt(ex, i) == Trim(Get(ex.rows[i], ex.nameCol))

\* the rows with a name
Named(ex) == {i \in DOMAIN ex.rows : NameAt(ex, i) # <<>>}

\* the first six of the rows of R
FirstSix(R) == {i \in R : Cardinality({j \in R : j < i}) < 6}

\* the rows whose name votes: the first six rows with a name
VotingRows(ex) == FirstSix(Named(ex))

\* the same with a name taken at its first row only
FirstOfName(ex) == {i \in Named(ex) : \A j \in Named(ex) : j < i => NameAt(ex, j) # NameAt(ex, i)}
VotingRowsDistinct(ex) == FirstSix(FirstOfName(ex))

\* the classes the index knows for a name
KnownClasses(name) ==
    IF name \in idx.index.names THEN Range(idx.index.nameToClasses[name]) ELSE {}

\* hit and the votes of class c when the rows R vote
HitOf(ex, R) == Cardinality({i \in R : KnownClasses(NameAt(ex, i)) # {}})
VotesOf(ex, R, c) == Cardinality({i \in R : c \in KnownClasses(NameAt(ex, i))})
BestOf(ex, R) ==
    IF idx.index.classSet = {} THEN 0
    ELSE CHOOSE v \in {VotesOf(ex, R, c) : c \in idx.index.classSet} :
            \A c \in idx.index.classSet : VotesOf(ex, R, c) <= v

\* a sheet that is imported: not the instructions sheet, and with a block
Yields(sheet) == Trim(sheet.name) # INSTRUCTIONS /\ parseSheetToBlocks(sheet) # <<>>

HasRecord(list, fileName, sheetName) ==
    \E i \in DOMAIN list : list[i].fileName = fileName /\ list[i].sheetName = sheetName

\* C1: no record of "all" or of the exams delivered is of a sheet whose trimmed
\* name is the instructions name, and once the first pass is over the sheets
\* next to such a sheet in its workbook have their records (if they yield one)
C1_InstructionsSkipped ==
    /\ \A i \in DOMAIN all : Trim(all[i].sheetName) # INSTRUCTIONS
    /\ \A i \in DOMAIN exams : Trim(exams[i].sheetName) # INSTRUCTIONS
    /\ pc \in {"index", "infer", "deliver"} =>
         \A f \in DOMAIN files : \A s \in DOMAIN files[f].sheets :
            Trim(files[f].sheets[s].name) = INSTRUCTIONS =>
               \A t \in {s - 1, s + 1} \cap DOMAIN files[f].sheets :
                  Yields(files[f].sheets[t]) =>
                     HasRecord(all, files[f].name, files[f].sheets[t].name)

\* an instructions sheet that holds a table, between two sheets that are both
\* imported
C1_Witness ==
    /\ pc = "deliver"
    /\ Len(files) = 1
    /\ Len(files[1].sheets) = 3
    /\ files[1].sheets[2] = Instructions
    /\ Len(all) = 2

\* C2: as long as the first pass runs the index is not built and every record's
\* inferredClass is empty; once the index is built or a record is inferred,
\* every sheet of every file of the batch that yields a record has its record
\* in "all"
C2_SecondPassAfterFirst ==
    /\ pc \in {"read", "sheets", "index"} =>
         /\ ~idx.built
         /\ \A i \in DOMAIN all : all[i].inferredClass = <<>>
    /\ (idx.built \/ \E i \in DOMAIN all : all[i].inferredClass # <<>>) =>
         \A f \in DOMAIN files : \A s \in DOMAIN files[f].sheets :
            Yields(files[f].sheets[s]) =>
               HasRecord(all, files[f].name, files[f].sheets[s].name)

\* a sheet of the first file inferred from the roster of the second file
C2_Witness ==
    /\ pc = "deliver"
    /\ Len(files) = 2
    /\ \E i \in DOMAIN all :
          /\ all[i].fileName = FA
          /\ ~HasClassValue(all[i])
          /\ all[i].inferredClass = CLASS_A
    /\ \E i \in DOMAIN all : all[i].fileName = FB /\ HasClassValue(all[i])

\* C3: for a record whose overrideClass is not empty after the trim,
\* getEffectiveClass returns the trimmed overrideClass
C3_OverrideWins ==
    (shown.done /\ Trim(probe.overrideClass) # <<>>) =>
        shown.class = Trim(probe.overrideClass)

\* the override " 3 " on a record whose class column holds 5 in every row
C3_Witness ==
    /\ shown.done
    /\ probe.overrideClass = <<" ","3"," ">>
    /\ probe.classCol = BJ
    /\ probe.rows = <<ClassRow(<<"5">>), ClassRow(<<"5">>)>>
    /\ probe.inferredClass = <<"7">>
    /\ shown.class = <<"3">>

\* the distinct non-empty class values of the rows getEffectiveClass samples
SampledClasses(ex) ==
    {v \in {Trim(Get(ex.rows[i], ex.classCol)) : i \in {j \in DOMAIN ex.rows : j <= 300}} :
        v # <<>>}

\* C4: for a record with an empty overrideClass: with a class column the result
\* is the unknown class for 0 distinct sampled values, the value for 1, the
\* whole school for 2 or more; without one it is inferredClass, or the unknown
\* class when inferredClass is empty
C4_Precedence ==
    (shown.done /\ Trim(probe.overrideClass) = <<>>) =>
        IF probe.classCol # <<>>
        THEN /\ Cardinality(SampledClasses(probe)) = 0 => shown.class = UNKNOWN_CLASS
             /\ Cardinality(SampledClasses(probe)) = 1 => shown.class \in SampledClasses(probe)
             /\ Cardinality(SampledClasses(probe)) >= 2 => shown.class = WHOLE_SCHOOL
        ELSE /\ probe.inferredClass # <<>> => shown.class = probe.inferredClass
             /\ probe.inferredClass = <<>> => shown.class = UNKNOWN_CLASS

\* a class column that is empty in the 300 rows sampled and filled in the
\* 301st, on a record with an inferred class: the result is the unknown class
C4_Witness ==
    /\ shown.done
    /\ probe.overrideClass = <<" ">>
    /\ probe.classCol = BJ
    /\ Len(probe.rows) = 301
    /\ probe.inferredClass = <<"7">>
    /\ shown.class = UNKNOWN_CLASS

\* a record the second pass has inferred and that has no class data
NeedsInference(i) == i \in Inferred /\ ~HasClassValue(all[i])

\* the votes are 2 for one class and 1 for another and none for the others
TwoToOne(ex) ==
    \E a, b \in idx.index.classSet :
        /\ a # b
        /\ VotesOf(ex, VotingRows(ex), a) = 2
        /\ VotesOf(ex, VotingRows(ex), b) = 1
        /\ \A c \in idx.index.classSet \ {a, b} : VotesOf(ex, VotingRows(ex), c) = 0

\* the votes are 3 for the class a and none for the others
ThreeToNone(ex, a) ==
    /\ VotesOf(ex, VotingRows(ex), a) = 3
    /\ \A c \in idx.index.classSet \ {a} : VotesOf(ex, VotingRows(ex), c) = 0

\* C5 as it is stated: a sheet that needs inference and has exactly 3
\* contributing names is of the unknown class when the votes are 2 to 1, and of
\* class A when the 3 votes are all for A
C5_AsStated ==
    \A i \in DOMAIN all :
        (NeedsInference(i) /\ HitOf(all[i], VotingRows(all[i])) = 3) =>
            /\ TwoToOne(all[i]) => all[i].inferredClass = UNKNOWN_CLASS
            /\ \A a \in idx.index.classSet :
                  ThreeToNone(all[i], a) => all[i].inferredClass = a

\* C5 (amended): a sheet that needs inference and of whose sampled name cells
\* exactly 3 have a known class is of the unknown class when the votes are 2
\* to 1 and the sheet has fewer than 150 data rows, and of class A when the 3
\* votes are all for A
C5_ThreeVoters ==
    \A i \in DOMAIN all :
        (NeedsInference(i) /\ HitOf(all[i], VotingRows(all[i])) = 3) =>
            /\ (TwoToOne(all[i]) /\ Len(all[i].rows) < 150) =>
                  all[i].inferredClass = UNKNOWN_CLASS
            /\ \A a \in idx.index.classSet :
                  ThreeToNone(all[i], a) => all[i].inferredClass = a

\* a sheet of 149 rows with the votes 2 to 1, inferred as of the unknown class
C5_Witness ==
    \E i \in DOMAIN all :
        /\ NeedsInference(i)
        /\ HitOf(all[i], VotingRows(all[i])) = 3
        /\ TwoToOne(all[i])
        /\ Len(all[i].rows) = 149
        /\ all[i].inferredClass = UNKNOWN_CLASS

\* the classes with the most votes
BestClasses(ex) ==
    {c \in idx.index.classSet :
        VotesOf(ex, VotingRows(ex), c) = BestOf(ex, VotingRows(ex))}

\* what C6 gives for hit, bestV and rows: a set of one class but for a tie
\* among the best-voted classes
Ruled(ex, hit, bestV, rows) ==
    IF hit < 3 \/ bestV = 0 THEN {UNKNOWN_CLASS}
    ELSE IF rows >= 150 /\ bestV * 100 < 85 * hit THEN {WHOLE_SCHOOL}
    ELSE IF bestV * 10 >= 7 * hit THEN BestClasses(ex)
    ELSE {UNKNOWN_CLASS}

\* C6: the inferredClass of a sheet that needs inference is the function of
\* hit, bestV and the number of rows that the claim gives
C6_InferenceRule ==
    \A i \in DOMAIN all :
        NeedsInference(i) =>
            all[i].inferredClass \in
                Ruled(all[i], HitOf(all[i], VotingRows(all[i])),
                      BestOf(all[i], VotingRows(all[i])), Len(all[i].rows))

\* a sheet of 150 rows whose votes are spread and that is inferred as the
\* whole school
C6_Witness ==
    \E i \in DOMAIN all :
        /\ NeedsInference(i)
        /\ Len(all[i].rows) = 150
        /\ HitOf(all[i], VotingRows(all[i])) = 3
        /\ BestOf(all[i], VotingRows(all[i])) = 2
        /\ all[i].inferredClass = WHOLE_SCHOOL

\* the record of the last call of inferSheetClass, if it sampled names
LastSampled == idx.built /\ ii > 1 /\ ~HasClassValue(all[ii - 1]) /\ all[ii - 1].nameCol # <<>>

\* the votes the Map holds for class c
VoteIn(vote, c) ==
    IF \E k \in DOMAIN vote : vote[k][1] = c
    THEN vote[CHOOSE k \in DOMAIN vote : vote[k][1] = c][2]
    ELSE 0

\* names, hit and vote are those of the rows R of ex voting in row order
VotedBy(ex, R) ==
    /\ Len(sampled.names) = Cardinality(R)
    /\ \A i \in R : sampled.names[Cardinality({j \in R : j <= i})] = NameAt(ex, i)
    /\ Cardinality(R) >= 3 =>
          /\ sampled.hit = HitOf(ex, R)
          /\ \A c \in idx.index.classSet : VoteIn(sampled.vote, c) = VotesOf(ex, R, c)
          /\ \A k \in DOMAIN sampled.vote : sampled.vote[k][1] \in idx.index.classSet

\* C7 as it is stated: the names that vote are the first up to 6 distinct
\* non-empty values of the name column in row order, each counted once and
\* adding one vote to each class observed for it
C7_AsStated == LastSampled => VotedBy(all[ii - 1], VotingRowsDistinct(all[ii - 1]))

\* C7 (amended): the names that vote are the first up to 6 non-empty cells of
\* the name column in row order, a name counted once for each of these cells
\* it occurs in, and each adds one vote to each class observed for it
C7_SampledCells == LastSampled => VotedBy(all[ii - 1], VotingRows(all[ii - 1]))

\* a name that fills two of the sampled cells and is counted twice
C7_Witness ==
    /\ LastSampled
    /\ Cardinality(VotingRowsDistinct(all[ii - 1])) < Cardinality(VotingRows(all[ii - 1]))
    /\ sampled.hit = 4
    /\ HitOf(all[ii - 1], VotingRowsDistinct(all[ii - 1])) = 3

\* C8: every class the index holds for a name is in a row, with that name, of
\* a record of "all" that has class data, and neither is empty
C8_IndexFromClassData ==
    idx.built =>
        \A n \in idx.index.names : \A c \in Range(idx.index.nameToClasses[n]) :
            /\ n # <<>>
            /\ c # <<>>
            /\ \E i \in DOMAIN all :
                  /\ HasClassValue(all[i])
                  /\ \E r \in DOMAIN all[i].rows :
                        /\ NameAt(all[i], r) = n
                        /\ Trim(Get(all[i].rows[r], all[i].classCol)) = c

\* an index built next to a record that has a class column but no class data
\* in the rows read, and whose pair of row 301 is not in the index
C8_Witness ==
    /\ idx.built
    /\ idx.index.names # {}
    /\ N5 \notin idx.index.names
    /\ \E i \in DOMAIN all :
          /\ all[i].classCol # <<>>
          /\ ~HasClassValue(all[i])
          /\ \E r \in DOMAIN all[i].rows :
                NameAt(all[i], r) = N5 /\ Trim(Get(all[i].rows[r], all[i].classCol)) # <<>>

\* a class column that is all but empty: at least 10 of the first 300 rows
\* have a name and fewer than a tenth of them have a class
NearEmpty(ex) ==
    /\ Cardinality({i \in Named(ex) : i <= 300}) >= 10
    /\ 10 * Cardinality({i \in Named(ex) :
                            i <= 300 /\ Trim(Get(ex.rows[i], ex.classCol)) # <<>>})
         < Cardinality({i \in Named(ex) : i <= 300})

\* C9 as it is stated: no record keeps a class column that is all but empty
C9_AsStated ==
    \A i \in DOMAIN all : all[i].classCol # <<>> => ~NearEmpty(all[i])

\* a header that reads as a name column
ReadsAsName(label) ==
    \/ Includes(normalizeHeader(label), XM)
    \/ Includes(normalizeHeader(label), <<"ming","zi">>)

NameHeaded(ex) == {k \in DOMAIN ex.cols : ReadsAsName(ex.cols[k].label)}

HasFatal(ex, error) == \E k \in DOMAIN ex.fatalErrors : ex.fatalErrors[k].error = error

\* C10 as it is stated: a record with two or more name-headed columns has a
\* fatal error and an empty nameCol
C10_AsStated ==
    \A i \in DOMAIN all :
        Cardinality(NameHeaded(all[i])) >= 2 =>
            all[i].fatalErrors # <<>> /\ all[i].nameCol = <<>>

\* C10 (amended): a record with two or more name-headed columns has the fatal
\* error of several name columns, and its nameCol is the first of them
C10_FirstNameCol ==
    \A i \in DOMAIN all :
        Cardinality(NameHeaded(all[i])) >= 2 =>
            /\ HasFatal(all[i], "multipleNameCols")
            /\ \E k \in NameHeaded(all[i]) :
                  /\ \A j \in NameHeaded(all[i]) : k <= j
                  /\ all[i].nameCol = all[i].cols[k].key

\* two name columns of which the first is empty: it is the nameCol
C10_Witness ==
    \E i \in DOMAIN all :
        /\ Cardinality(NameHeaded(all[i])) = 2
        /\ all[i].fatalErrors # <<>>
        /\ all[i].nameCol # <<>>
        /\ \A r \in DOMAIN all[i].rows : NameAt(all[i], r) = <<>>

\* the records of "all" that are of the sheet s of the file f of the batch
RecordsOfSheet(f, s) ==
    {i \in DOMAIN all : /\ all[i].fileName = files[f].name
                        /\ all[i].sheetName = files[f].sheets[s].name}

FirstPassOver == pc \in {"index", "infer", "deliver"}

CallEnded == pc = "idle" /\ files # <<>> /\ accepted(files)

\* C12 as it is stated: when the call has ended, every sheet that yields a
\* record and belongs to a file that can be read has its record among the
\* exams delivered, whether or not another file of the batch failed to decode
C12_AsStated ==
    CallEnded =>
        \A f \in DOMAIN files : files[f].readable =>
            \A s \in DOMAIN files[f].sheets :
                Yields(files[f].sheets[s]) =>
                    HasRecord(exams, files[f].name, files[f].sheets[s].name)

\* the columns of the block whose header reads as a student identifier
IdHeaded(b) ==
    {k \in DOMAIN b.columns : IncludesAny(normalizeHeader(b.columns[k].label), ID_WORDS)}

\* the columns of the block whose header reads as the total
TotalHeaded(b) ==
    {k \in DOMAIN b.columns : Includes(normalizeHeader(b.columns[k].label), ZF)}

\* the filled cells of the column k of the block
FilledCells(b, k) ==
    {i \in DOMAIN b.rows : Trim(Get(b.rows[i], b.columns[k].key)) # <<>>}

NumberAt(b, k, i) == toNumber(Get(b.rows[i], b.columns[k].key))

\* a column with a filled cell whose filled cells are all numbers >= 100000
LargeIds(b) ==
    {k \in IdHeaded(b) :
        /\ FilledCells(b, k) # {}
        /\ \A i \in FilledCells(b, k) : NumAtLeast(NumberAt(b, k, i), 100000)}

EmptyTotals(b) == {k \in TotalHeaded(b) : FilledCells(b, k) = {}}

\* a column with a filled cell whose filled cells are all numbers in 0..1200
Marks(b) ==
    {k \in DOMAIN b.columns :
        /\ FilledCells(b, k) # {}
        /\ \A i \in FilledCells(b, k) : NumInRange(NumberAt(b, k, i), 1200)}

\* a column without a number
Texts(b) ==
    {k \in DOMAIN b.columns : \A i \in FilledCells(b, k) : ~NumberAt(b, k, i).ok}

KeysOf(b, ks) == {b.columns[k].key : k \in ks}

\* the block of the claim: a student identifier of large integers and an
\* empty total column
C13_Case == shown.done /\ LargeIds(probe) # {} /\ EmptyTotals(probe) # {}

\* C13 as it is stated: in a block with a student identifier column of large
\* integers and an empty total column, guessTotalCol does not return the
\* identifier column, and it returns no column
C13_AsStated ==
    C13_Case => shown.total \notin KeysOf(probe, LargeIds(probe)) /\ shown.total = <<>>

\* C13 (amended): in such a block guessTotalCol returns neither the identifier
\* column nor the empty total column; it returns no column when every other
\* column holds no number and is not headed as a total, and it returns one of
\* the other columns when one of them holds marks in 0..1200 under a header
\* that is neither rank-like nor metadata
C13_NeverTheIdentifier ==
    C13_Case =>
        /\ shown.total \notin KeysOf(probe, LargeIds(probe) \cup EmptyTotals(probe))
        /\ (DOMAIN probe.columns \ (LargeIds(probe) \cup EmptyTotals(probe))
               \subseteq Texts(probe) \ TotalHeaded(probe))
              => shown.total = <<>>
        /\ (\E k \in Marks(probe) :
               /\ ~totalIsRankLike(normalizeHeader(probe.columns[k].label))
               /\ ~totalIsMetaLike(normalizeHeader(probe.columns[k].label))
               /\ ~Includes(normalizeHeader(probe.columns[k].label), <<"fu","fen">>))
              => shown.total # <<>>

\* a name, a six-digit student number and an empty total: no total column
C13_Witness ==
    /\ shown.done
    /\ Len(probe.columns) = 3
    /\ LargeIds(probe) = {2}
    /\ EmptyTotals(probe) = {3}
    /\ Texts(probe) = {1, 3}
    /\ TotalHeaded(probe) = {3}
    /\ shown.total = <<>>

\* a header that is rank-like, or that of the class, of a student identifier,
\* of the exam number or of the name
IdentityHeader(h) ==
    \/ totalIsRankLike(h)
    \/ Includes(h, BJ)
    \/ IncludesAny(h, ID_WORDS)
    \/ Includes(h, KH)
    \/ Includes(h, XM)
    \/ Includes(h, <<"ming","zi">>)

IdentityHeaded(b) ==
    {k \in DOMAIN b.columns : IdentityHeader(normalizeHeader(b.columns[k].label))}

\* C14 as it is stated: guessTotalCol never returns a column whose header is
\* rank-like or is that of the class, of a student identifier, of the exam
\* number or of the name
C14_AsStated ==
    shown.done => shown.total \notin KeysOf(probe, IdentityHeaded(probe))

\* the keys of the columns of the record
ColumnKeys(ex) == {ex.cols[k].key : k \in DOMAIN ex.cols}

\* C15 as it is stated: every value that the metricCols of a record holds,
\* that of total included, is the key of one of the columns of the record
C15_AsStated ==
    \A i \in DOMAIN all : \A m \in DOMAIN all[i].metricCols :
        all[i].metricCols[m] \in ColumnKeys(all[i])

\* C15 (amended): the metricCols of a record always hold total; every value
\* that is not the empty string is the key of one of the columns of the
\* record, and only total can be the empty string, which it is exactly when
\* no column is detected as the total and guessTotalCol finds none
C15_MetricKeys ==
    \A i \in DOMAIN all :
        /\ "total" \in DOMAIN all[i].metricCols
        /\ \A m \in DOMAIN all[i].metricCols :
              IF all[i].metricCols[m] # <<>>
              THEN all[i].metricCols[m] \in ColumnKeys(all[i])
              ELSE m = "total" /\ all[i].totalCol = <<>>

\* a record with the metrics total and chinese, and a record whose total is
\* the empty string
C15_Witness ==
    /\ \E i \in DOMAIN all :
          /\ {"total", "chinese"} \subseteq DOMAIN all[i].metricCols
          /\ all[i].metricCols["total"] # all[i].metricCols["chinese"]
          /\ all[i].metricCols["chinese"] \in ColumnKeys(all[i])
    /\ \E i \in DOMAIN all : all[i].metricCols["total"] = <<>>

\* the names of the files of the batch being imported
BatchFiles == {files[f].name : f \in DOMAIN files}

\* C16: the records of "all" are those of the batch being imported; every
\* class of the index is in a row of one of them; a record that is inferred
\* has the class that inferSheetClass gives it under the index of the records
\* of "all" alone, which is the unknown class when none of them has class
\* data, whatever the exams delivered by an earlier batch hold
C16_IndexPerBatch ==
    /\ \A i \in DOMAIN all : all[i].fileName \in BatchFiles
    /\ idx.built =>
         /\ \A c \in idx.index.classSet :
               \E i \in DOMAIN all : \E r \in DOMAIN all[i].rows :
                   Trim(Get(all[i].rows[r], all[i].classCol)) = c
         /\ \A i \in Inferred :
               /\ all[i].inferredClass = inferSheetClass(all[i], buildClassIndex(all))
               /\ (\A j \in DOMAIN all : ~HasClassValue(all[j])) =>
                      all[i].inferredClass = UNKNOWN_CLASS

\* the second batch of a session, whose sheet lists three times a name of the
\* roster delivered by the first batch: the sheet has the unknown class
C16_Witness ==
    /\ pc = "deliver"
    /\ pending = <<>>
    /\ \E i \in DOMAIN exams : HasClassValue(exams[i]) /\ exams[i].fileName \notin BatchFiles
    /\ Len(all) = 1
    /\ ~HasClassValue(all[1])
    /\ \A r \in DOMAIN all[1].rows :
          \E i \in DOMAIN exams : \E q \in DOMAIN exams[i].rows :
              /\ NameAt(exams[i], q) = NameAt(all[1], r)
              /\ Trim(Get(exams[i].rows[q], exams[i].classCol)) = CLASS_A
    /\ sampled.hit = 0
    /\ all[1].inferredClass = UNKNOWN_CLASS

\* the sequence s from its last element to its first
Reverse(s) == [i \in DOMAIN s |-> s[Len(s) + 1 - i]]

\* the batch with the sheets of every workbook in the reverse order
SheetsReversed(batch) ==
    [f \in DOMAIN batch |-> [batch[f] EXCEPT !.sheets = Reverse(batch[f].sheets)]]

\* three of the permutations of the sheets of the batch
Reorderings(batch) ==
    {Reverse(batch), SheetsReversed(batch), Reverse(SheetsReversed(batch))}

\* whether every record of "all" has the inferredClass of the record of the
\* same sheet among the records given
SameClasses(records) ==
    \A i \in DOMAIN all : \A j \in DOMAIN records :
        (records[j].fileName = all[i].fileName /\ records[j].sheetName = all[i].sheetName)
            => records[j].inferredClass = all[i].inferredClass

\* C17 as it is stated: when the call returns, every record has the
\* inferredClass that the record of the same sheet has when the batch is
\* imported with its files or its sheets in another order (checked on the
\* batches whose sheets have 6 rows at most)
C17_AsStated ==
    (pc = "deliver" /\ \A i \in DOMAIN all : Len(all[i].rows) <= 6) =>
        \A other \in Reorderings(files) : SameClasses(importFiles(other))

\* the record with the given fields blanked
Without(ex, fields) == [k \in DOMAIN ex |-> IF k \in fields THEN <<>> ELSE ex[k]]

\* the exams are the same records but for the given fields
SameBut(fields) ==
    /\ Len(exams') = Len(exams)
    /\ \A i \in DOMAIN exams : Without(exams'[i], fields) = Without(exams[i], fields)

\* the exams other than the active one are left as they are
OnlyActive == \A i \in DOMAIN exams : exams[i].id # activeExamId => exams'[i] = exams[i]

\* C18 as it is stated: selecting an exam, saving or clearing an override and
\* editing the exam form leave every field of every exam but overrideClass
C18_AsStated ==
    [][(SelectExam \/ SaveOverrideClass \/ ClearOverrideClass \/ EditExamName)
          => SameBut({"overrideClass"})]_vars

\* C18 (amended): selecting an exam leaves the exams as they are; saving or
\* clearing an override changes at most the overrideClass, and editing the
\* exam name at most the examName, of the active exam only
C18_OverrideAndName ==
    [][/\ SelectExam => exams' = exams
       /\ (SaveOverrideClass \/ ClearOverrideClass) => SameBut({"overrideClass"}) /\ OnlyActive
       /\ EditExamName => SameBut({"examName"}) /\ OnlyActive]_vars

\* two exams, the second selected, with its name edited and its override
\* saved, next to the first as it was imported
C18_Witness ==
    /\ pc = "idle"
    /\ Len(exams) = 2
    /\ activeExamId = exams[2].id
    /\ exams[2].examName = <<"q","1">>
    /\ exams[2].overrideClass = <<"3">>
    /\ exams[1].examName = exams[1].sheetName
    /\ exams[1].overrideClass = <<>>

\* the duplicate names counted for the record
DupCount ==
    IF probe.dups.given /\ probe.ex.id \in DOMAIN probe.dups.count
    THEN probe.dups.count[probe.ex.id] ELSE 0

\* C19: the status is "fail" exactly when the record has a fatal error; for a
\* record without one it is "warn" when the total column is absent, when it
\* has a warning or when duplicate names were counted, and "ok" otherwise
C19_Status ==
    shown.done =>
        /\ shown.status = "fail" <=> probe.ex.fatalErrors # <<>>
        /\ probe.ex.fatalErrors = <<>> =>
              IF probe.ex.totalCol = <<>> \/ probe.ex.warnings # <<>> \/ DupCount > 0
              THEN shown.status = "warn"
              ELSE shown.status = "ok"

\* a record without a fatal error, a warning or a duplicate name, and without
\* a total column: its status is "warn"
C19_Witness ==
    /\ shown.done
    /\ probe.ex.fatalErrors = <<>>
    /\ probe.ex.warnings = <<>>
    /\ probe.dups.given /\ DupCount = 0
    /\ probe.ex.totalCol = <<>>
    /\ shown.status = "warn"

\* the width of the view, and whether its column c (from 1) is empty in the
\* first two rows
ViewWidth == Len(probe[1])
EmptyOnTop(c) == \A r \in DOMAIN probe : r <= 2 => Trim(probe[r][c]) = <<>>

\* the view is a table of a columns, a gap of k columns and a table: no column
\* of a table is empty in the first two rows, every column of the gap is
TwoTables(a, k) ==
    /\ a >= 3
    /\ ViewWidth - a - k >= 3
    /\ \A c \in 1..ViewWidth : EmptyOnTop(c) <=> (c > a /\ c <= a + k)

\* C20: every range returned has 3 columns or more; two tables of 3 columns or
\* more with a gap of 1 column or more between them give 2 ranges or more (the
\* two tables), and with no gap they give exactly 1 range (the whole view)
C20_BlockSplitting ==
    shown.done =>
        /\ \A i \in DOMAIN shown.ranges : shown.ranges[i].end - shown.ranges[i].start + 1 >= 3
        /\ \A a \in 3..ViewWidth : \A k \in 0..ViewWidth :
              TwoTables(a, k) =>
                  IF k >= 1
                  THEN /\ Len(shown.ranges) >= 2
                       /\ shown.ranges = <<[start |-> 0, end |-> a - 1],
                                           [start |-> a + k, end |-> ViewWidth - 1]>>
                  ELSE shown.ranges = <<[start |-> 0, end |-> ViewWidth - 1]>>

\* 12 columns of which the sixth and the seventh are empty in the first two
\* rows and filled in the third: two ranges of 5 columns
C20_Witness ==
    /\ shown.done
    /\ Len(probe) = 3
    /\ ViewWidth = 12
    /\ TwoTables(5, 2)
    /\ \A c \in {6, 7} : Trim(probe[3][c]) # <<>>
    /\ shown.ranges = <<[start |-> 0, end |-> 4], [start |-> 7, end |-> 11]>>

\* the cells of the row r (from 0) of the matrix that are not empty
CellsOf(r) == {c \in DOMAIN probe[r + 1] : Trim(probe[r + 1][c]) # <<>>}

\* a row with exactly one non-empty cell, of 6 characters or more
IsTitle(r) ==
    /\ Cardinality(CellsOf(r)) = 1
    /\ \A c \in CellsOf(r) : Len(Trim(probe[r + 1][c])) >= 6

BearsKeyword(r) ==
    \E c \in DOMAIN probe[r + 1] : \E k \in HEADER_KEYWORDS : Includes(probe[r + 1][c], k)

\* a row with 3 filled cells or more and a keyword
DenseKeyword(r) == Cardinality(CellsOf(r)) >= 3 /\ BearsKeyword(r)

\* the rows that are scanned, and what a row that is not a title weighs
Scanned == {r \in 0..(Len(probe) - 1) : r < 18}
Weight(r) == Cardinality(CellsOf(r)) + (IF BearsKeyword(r) THEN 12 ELSE 0)

\* the matrix of the claim: a title in row 0, a dense row with a keyword in
\* row 2
C21_Case == shown.done /\ Len(probe) >= 3 /\ IsTitle(0) /\ DenseKeyword(2)

\* C21 as it is stated: with a title in row 0 and a dense row with a keyword
\* in row 2, detectHeaderStartRow returns 2
C21_AsStated == C21_Case => shown.row = 2

\* C21 (amended): with a title in row 0 and a dense row with a keyword in
\* row 2, detectHeaderStartRow never returns 0 nor a title row; it returns 2
\* exactly when row 1 is a title or weighs less than row 2 and no scanned row
\* after row 2 that is not a title weighs more than row 2
C21_HeaderBelowTitle ==
    C21_Case =>
        /\ shown.row # 0
        /\ ~IsTitle(shown.row)
        /\ shown.row = 2 <=>
              /\ IsTitle(1) \/ Weight(1) < Weight(2)
              /\ \A r \in Scanned : (r > 2 /\ ~IsTitle(r)) => Weight(r) <= Weight(2)

\* a title, an empty row, a header of four cells and a row of numbers: the
\* header row is row 2
C21_Witness ==
    /\ shown.done
    /\ probe = <<TitleRow, EmptyRow, HeaderRow4, DataRow>>
    /\ shown.row = 2

\* C22 as it is stated: detectHeaderStartRow never returns a title row
C22_AsStated == shown.done => ~IsTitle(shown.row)

\* the header, normalised, of the column of the probe with the given key
HeaderOfKey(key) ==
    metricNorm((CHOOSE c \in Range(probe) : c.key = key).label)

HasRankWord(h) ==
    \E w \in {<<"pai","ming">>, <<"ming","ci">>, <<"pai">>} : Includes(h, w)

\* the words of the school or the grade: grade, school, the character of
\* school and the character of level
HasSchoolWord(h) ==
    \E w \in {<<"nian","ji">>, <<"xue","xiao">>, <<"xiao">>, <<"ji">>} : Includes(h, w)

\* the same without the character of level, which the word for class holds
HasSchoolWordButLevel(h) ==
    \E w \in {<<"nian","ji">>, <<"xue","xiao">>, <<"xiao">>} : Includes(h, w)

HasClassWord(h) == Includes(h, <<"ban">>)

SchoolRankOk ==
    "schoolRank" \in DOMAIN shown.metricCols =>
        /\ HasSchoolWord(HeaderOfKey(shown.metricCols["schoolRank"]))
        /\ HasRankWord(HeaderOfKey(shown.metricCols["schoolRank"]))
        /\ ~HasClassWord(HeaderOfKey(shown.metricCols["schoolRank"]))

NeverBoth ==
    {"schoolRank", "classRank"} \subseteq DOMAIN shown.metricCols =>
        shown.metricCols["schoolRank"] # shown.metricCols["classRank"]

Unlabeled(c) ==
    /\ Trim(probe[1][c]) = <<>>
    /\ shown.headerRowsUsed = 2 => Trim(probe[2][c]) = <<>>

\* C24 as it is stated: a column without text in the header rows that are
\* used has the placeholder for its header, which does not read as a name
C24_AsStated ==
    shown.done =>
        \A c \in DOMAIN shown.headers :
            Unlabeled(c) => shown.headers[c] = UNNAMED /\ ~isNameHeader(shown.headers[c])

\* C25: the columns made for a block are as many as the columns of its range,
\* each for its own column of the sheet, and no two of them have the same key
C25_DistinctKeys ==
    shown.done =>
        /\ Len(shown.columns) = probe.end - probe.start + 1
        /\ \A i \in DOMAIN shown.columns : shown.columns[i].colIndex = probe.start + i - 1
        /\ \A i, j \in DOMAIN shown.columns :
              i # j => shown.columns[i].key # shown.columns[j].key

\* three columns with the same header text after the norm, and three columns
\* without a header text
C25_Witness ==
    /\ shown.done
    /\ Len(shown.columns) = 3
    /\ \/ \A i \in 1..3 : norm(probe.headers[i]) = XM
       \/ \A i \in 1..3 : probe.headers[i] = <<>>
    /\ shown.columns[1].key # shown.columns[2].key
    /\ shown.columns[2].key # shown.columns[3].key

\* the cell (r, c), from 0, of the sheet and of the matrix returned
OldCell(r, c) == Cell(MRow(probe.cells, r), c)
NewCell(r, c) == Cell(MRow(shown.matrix, r), c)

\* the rows and columns that the sheet or one of its ranges reaches
MergeRows == 0..35
MergeCols == 0..4

\* the ranges of the sheet that hold the cell (r, c)
RangesAt(r, c) ==
    {k \in DOMAIN probe.merges :
        /\ probe.merges[k].sr <= r /\ r <= probe.merges[k].er
        /\ probe.merges[k].sc <= c /\ c <= probe.merges[k].ec}

TopLeft(k) == OldCell(probe.merges[k].sr, probe.merges[k].sc)

\* C26: a cell that is not empty in the sheet keeps its value; a cell whose
\* value changes was empty, lies in one of the first 30 rows inside a range
\* and has the top-left value of that range, which is not empty; and every
\* empty cell of the first 30 rows inside a range with such a value gets it
C26_OnlyEmptyCellsFilled ==
    shown.done =>
        \A r \in MergeRows : \A c \in MergeCols :
            /\ ~isEmptyCell(OldCell(r, c)) => NewCell(r, c) = OldCell(r, c)
            /\ NewCell(r, c) # OldCell(r, c) =>
                  /\ isEmptyCell(OldCell(r, c))
                  /\ r < 30
                  /\ \E k \in RangesAt(r, c) :
                        NewCell(r, c) = TopLeft(k) /\ ~isEmptyCell(TopLeft(k))
            /\ (isEmptyCell(OldCell(r, c)) /\ r < 30) =>
                  \A k \in RangesAt(r, c) :
                      ~isEmptyCell(TopLeft(k)) => NewCell(r, c) = TopLeft(k)

\* a range from row 28 to row 30 over two columns, with a text at its top
\* left: the cells of rows 28 and 29 are filled, those of row 30 are not,
\* and the top-left cell keeps its text
C26_Witness ==
    /\ shown.done
    /\ probe.cells = TallCells
    /\ probe.merges = <<Merge(28, 0, 30, 1)>>
    /\ NewCell(28, 0) = <<"t">>
    /\ NewCell(28, 1) = <<"t">>
    /\ NewCell(29, 1) = <<"t">>
    /\ NewCell(30, 0) = <<>>

\* the error that importFiles has for an empty nameCol (line 433)
NoNameColError == [error |-> "noNameCol", n |-> 0]

\* the record has a name column, which is one of its at least 3 columns, and
\* it has not the error of the unrecognized name column; without a header
\* that reads as a name it has no fatal error at all
NameColFound(ex) ==
    /\ Len(ex.cols) >= 3
    /\ ex.nameCol # <<>>
    /\ ex.nameCol \in ColumnKeys(ex)
    /\ \A e \in DOMAIN ex.fatalErrors : ex.fatalErrors[e] # NoNameColError
    /\ findAllNameCols(ex.cols) = <<>> => ex.fatalErrors = <<>>

MetricsApart(ex) ==
    \A m, n \in DOMAIN ex.metricCols :
        (m # n /\ ex.metricCols[m] # <<>>) => ex.metricCols[m] # ex.metricCols[n]

\* C28 as it is stated: in every record of importFiles no two distinct metric
\* identifiers of metricCols map to the same column key, the total filled
\* from the guessed total column included
C28_AsStated ==
    /\ \A i \in DOMAIN all : MetricsApart(all[i])
    /\ \A i \in DOMAIN exams : MetricsApart(exams[i])

\* the empty string, one to three digits, or the unknown class
Permitted(v) ==
    \/ v = <<>>
    \/ v = <<"wei","zhi","ban","ji">>
    \/ /\ Len(v) \in 1..3
       /\ \A i \in DOMAIN v : v[i] \in {"0", "1", "2", "3", "4", "5", "6", "7", "8", "9"}

\* the drafts that saveOverrideClass stores, as it stores them
PermittedDrafts == {Trim(d) : d \in {e \in OverrideDrafts : Permitted(Trim(e))}}

\* C29: the overrideClass of every record is always the empty string, one to
\* three digits, or the unknown class; and a saveOverrideClass that changes
\* the exams had a draft that is so once trimmed, and gives the active exam
\* that trimmed draft
C29_OverrideAlwaysPermitted ==
    /\ [](\A i \in DOMAIN exams : Permitted(exams[i].overrideClass))
    /\ [][(SaveOverrideClass /\ exams' # exams) =>
             /\ exams'[activeExam].overrideClass \in PermittedDrafts
             /\ exams'[activeExam].overrideClass # exams[activeExam].overrideClass]_vars

\* an exam whose override was saved as the unknown class, while drafts of
\* four digits and of a digit and a letter were there to be saved
C29_Witness ==
    /\ pc = "idle"
    /\ {<<"1","2","3","4">>, <<"3","b">>} \subseteq OverrideDrafts
    /\ \E i \in DOMAIN exams :
          /\ exams[i].id = activeExamId
          /\ exams[i].overrideClass = UNKNOWN_CLASS

\* a step that ends a call of importFiles by its return
Returns == pc = "deliver" /\ pc' = "idle"

\* C30: the exams change only by the step in which importFiles returns, which
\* a call with a file over 10 MB or with a file that cannot be read never
\* takes; that step sets the exams to the records that the call collected,
\* all of them of the files of the batch, whatever the exams were
C30_KeptOrReplaced ==
    [][IF Returns
       THEN /\ accepted(files)
            /\ \A f \in DOMAIN files : files[f].readable
            /\ exams' = all
            /\ \A i \in DOMAIN exams' : exams'[i].fileName \in BatchFiles
       ELSE exams' = exams]_vars

\* after a first import, a second attempt with a file one byte over 10 MB has
\* ended: the exams are those of the first import
C30_Witness ==
    /\ pc = "idle"
    /\ pending = <<>>
    /\ \E f \in DOMAIN files : tooLarge(files[f])
    /\ exams # <<>>
    /\ \A i \in DOMAIN exams : exams[i].fileName \notin BatchFiles

====
